---- MODULE Spec2Model ----
(***************************************************************************)
(* A model of sqlextract's resumable extraction core: the state managers   *)
(* of internal/state (memory, file, cluster), the keyset ExtractData of    *)
(* the context-based adapters (internal/database/mssql.go and its          *)
(* siblings), the file-writing ExtractData of the table-keyed adapters,    *)
(* and pkg/extractor.                                                      *)
(*                                                                         *)
(* The module holds several specifications over one set of variables; a    *)
(* specification leaves the variables of the other parts at their initial  *)
(* values.                                                                 *)
(*   SpecLock    workers calling LockState / UnlockState concurrently on   *)
(*               each of the three in-memory managers                      *)
(*   SpecKeyset  workers running MSSQL.ExtractData concurrently over the   *)
(*               context-variant MemoryManager                             *)
(*   SpecAdapter one process calling the ExtractData of the DuckDB,        *)
(*               Snowflake, Postgres or BigQuery adapter, over the         *)
(*               table-keyed MemoryManager or MemoryStateManager           *)
(*   SpecExtractor  processes using an Extractor of pkg/extractor, with    *)
(*               cancellation, crashes and the checkpoint file             *)
(*   SpecStore   one caller making single calls of the Manager interface   *)
(*               on the table-keyed MemoryManager or MemoryStateManager    *)
(*   SpecUpdaters  goroutines calling UpdateState concurrently on one      *)
(*               MemoryManager, as state_test.go's concurrency test does   *)
(*   SpecSaveState  processes running FileStateManager.saveState, dying    *)
(*               inside it, and reading the state file back                *)
(*   SpecFileLock  processes calling the file backend's LockState and      *)
(*               UnlockState on one directory, step by file-system step    *)
(*   SpecKube    workers calling the cluster backend's UpdateState,        *)
(*               CreateState and DeleteState, API call by API call         *)
(*   SpecBackends  one sequence of Manager calls applied to a memory, a    *)
(*               file and a cluster backend side by side                   *)
(*   SpecAlias   callers of the context-variant MemoryManager assigning    *)
(*               to the State that GetState returned                       *)
(*   SpecFileMutex  goroutines of one process calling one                  *)
(*               FileStateManager, step by step of its read-write mutex    *)
(*   SpecBatchSize  the command run with any batch size its flags accept   *)
(*   SpecWhere   the WHERE clause of a keyset query, built from a stored   *)
(*               last key and tested against a row                         *)
(***************************************************************************)
EXTENDS Integers, Sequences, FiniteSets, TLC

VARIABLES
    now,        \* the wall clock read by time.Now()
    fatal,      \* the Go runtime ended the process ("concurrent map writes")
    \* ---- SpecLock: one in-memory manager under concurrent LockState calls
    lmgr,       \* which manager the run uses
    lstates,    \* m.states: key -> State
    llocks,     \* m.locks: key -> expiry time
    lpc,        \* per worker: position inside LockState
    lkey,       \* per worker: the key of the call in progress
    ldur,       \* per worker: the duration of the call in progress
    lret,       \* per worker: what its last LockState returned
    lgrant,     \* per worker: the lease its last successful LockState granted
    \* ---- SpecKeyset: MSSQL.ExtractData over the context-variant MemoryManager
    kstates,    \* m.states: job id -> pointer to a State
    kheap,      \* the State objects, by pointer
    klocks,     \* m.locks: job id -> expiry time
    kpc,        \* per worker: position inside ExtractData
    kjob,       \* per worker: jobID
    kptr,       \* per worker: the local `state` pointer (0 is nil)
    kpage,      \* per worker: the rows the query produced
    kres,       \* per worker: what ExtractData returned
    \* ---- SpecAdapter: the file-writing ExtractData of the table-keyed adapters
    aadapter,   \* which adapter runs
    asize,      \* the number of rows of the source table (rows 1..asize)
    aformat,    \* format
    abatch,     \* batchSize
    akeys,      \* keyColumns
    awhere,     \* whereClause: 0 is "", n > 0 is "id > n"
    afile,      \* the output file
    apc,        \* position inside ExtractData
    acur,       \* currentState: the status of the State it points to, or "nil"
    atotal,     \* totalRows
    aoffset,    \* offset
    aprocessed, \* processedRows
    arows,      \* the rows the open cursor has still to deliver
    ares,       \* what ExtractData returned
    aruns,      \* ExtractData calls made so far
    asignal,    \* SIGINT or SIGTERM was delivered during the running call
    \* ---- SpecExtractor: pkg/extractor, one Extractor per process
    esize,      \* the number of rows of the source table (rows 1..esize)
    ebatch,     \* e.batchSize
    eformat,    \* e.format
    efile,      \* the output file: its lines, 0 the header line, n the row n
    eckfile,    \* the checkpoint file: <<>> when absent, else <<LastOffset>>
    ebuf,       \* the lines csv.Writer has buffered and not yet written
    epc,        \* position of the process
    elastID,    \* e.lastID
    echeckpoint,\* e.checkpoint: <<>> for nil, else <<LastOffset>>
    eloaded,    \* LoadCheckpoint of this process read a checkpoint file
    eoffset,    \* offset
    etotal,     \* totalRows
    epage,      \* the rows of the batch not yet written
    ecancel,    \* ctx is cancelled
    eres,       \* what the last Extract of this process returned
    eprev,      \* how the Extract of the previous process ended
    eruns,      \* Extract calls made so far
    ecall,      \* the checkpoint method the last step ran, and its outcome
    \* ---- SpecStore, SpecUpdaters: calls of the Manager interface on lmgr
    scall,      \* the call the last step made and what it returned
    snext,      \* per worker: the value its next UpdateState writes
    \* ---- the file backend (file.go): a directory shared by processes
    fdir,       \* the directory: file name -> <<>> (empty file) or <<content>>
    fpc,        \* per process: position inside its FileStateManager call
    farg,       \* per process: the argument of the call in progress
    fret,       \* per process: what its last call returned
    \* ---- the cluster backend (kubernetes.go): ConfigMaps of one namespace
    qcm,        \* the API server: ConfigMap name -> its content
    qpc,        \* per worker: position inside its KubernetesManager call
    qarg,       \* per worker: the argument of the call in progress
    qread,      \* per worker: what the Get of its UpdateState returned
    qret,       \* per worker: what its last call returned
    \* ---- SpecBackends: one call sequence applied to the three backends
    bcall,      \* the last call and what each backend returned
    \* ---- SpecWhere: the WHERE clause of one keyset query
    wq          \* the query built, its arguments, and its verdict on a row

lockVars == <<lmgr, lstates, llocks, lpc, lkey, ldur, lret, lgrant>>
keysetVars == <<kstates, kheap, klocks, kpc, kjob, kptr, kpage, kres>>

adapterVars == <<aadapter, asize, aformat, abatch, akeys, awhere, afile, apc, acur,
                 atotal, aoffset, aprocessed, arows, ares, aruns, asignal>>
extractorVars == <<esize, ebatch, eformat, efile, eckfile, ebuf, epc, elastID,
                   echeckpoint, eloaded, eoffset, etotal, epage, ecancel, eres, eprev,
                   eruns, ecall>>
storeVars == <<scall, snext>>
fileVars == <<fdir, fpc, farg, fret>>
kubeVars == <<qcm, qpc, qarg, qread, qret>>
backendVars == <<fileVars, kubeVars, bcall, wq>>
lockCallVars == <<lpc, lkey, ldur, lret, lgrant>>

notLock == <<keysetVars, adapterVars, extractorVars, storeVars, backendVars>>
notKeyset == <<lockVars, adapterVars, extractorVars, storeVars, backendVars>>
notAdapter == <<keysetVars, lockCallVars, extractorVars, storeVars, backendVars>>
notExtractor == <<now, fatal, lockVars, keysetVars, adapterVars, storeVars, backendVars>>
notStore == <<fatal, lmgr, lockCallVars, keysetVars, adapterVars, extractorVars, backendVars>>

(***************************************************************************)
(* Bounds                                                                  *)
(***************************************************************************)
MaxTime == 2
MaxDuration == 2
NRows == 2
MaxBatch == 2
MaxRuns == 2
MaxUpdates == 3

\* 5*time.Minute, the ttl ExtractData passes to LockState; the clock counts minutes
LockTTL == 5

\* the claims are about two workers racing for one job
Workers == {1, 2}
Times == 0..MaxTime
Durations == 1..MaxDuration
Keys == {"t1", "t2"}
Managers == {"MemoryManager", "MemoryStateManager", "CtxMemoryManager"}

NoGrant == [key |-> "", exp |-> 0]

(***************************************************************************)
(* Go map helpers                                                          *)
(***************************************************************************)
\* m[k] = v
MapSet(m, k, v) == [x \in DOMAIN m \cup {k} |-> IF x = k THEN v ELSE m[x]]

\* delete(m, k)
MapDelete(m, k) == [x \in DOMAIN m \ {k} |-> m[x]]

EmptyMap == [x \in {} |-> 0]

\* lockTime, exists := m.locks[k]; exists && lockTime.After(t)
\* (the context variant writes it time.Now().Before(lockTime))
LockLive(locks, k, t) == k \in DOMAIN locks /\ locks[k] > t

(***************************************************************************)
(* State (internal/state)                                                  *)
(***************************************************************************)
\* A State created as "pending" and never moved to "running" before the
\* extraction proceeds.
NewState_Pending(jobID, table, offset, t) ==
    [JobID |-> jobID, Table |-> table, LastOffset |-> offset,
     LastValues |-> <<>>, LastUpdated |-> t, TotalRows |-> 0,
     ProcessedRows |-> 0, Status |-> "pending", Error |-> ""]

\* &state.State{JobID, Table, LastOffset, LastUpdated, Status: "running"}
NewState(jobID, table, offset, t) ==
    [JobID |-> jobID, Table |-> table, LastOffset |-> offset,
     LastValues |-> <<>>, LastUpdated |-> t, TotalRows |-> 0,
     ProcessedRows |-> 0, Status |-> "running", Error |-> ""]

\* State.Status: "running", "completed", "failed" (and the specification's "pending")
StatusValues == {"pending", "running", "completed", "failed"}

\* state.Status = "failed"; state.Error = err.Error()
StatusFailed == "failed"
MarkFailed(st, msg) == [st EXCEPT !.Status = StatusFailed, !.Error = msg]

(***************************************************************************)
(* The clock                                                               *)
(***************************************************************************)
Tick ==
    /\ ~fatal
    /\ now < MaxTime
    /\ \E t \in Times : t > now /\ now' = t
    /\ UNCHANGED <<fatal, lockVars, keysetVars, adapterVars, extractorVars, storeVars,
                   backendVars>>

\* a query or a write that takes as long as the lease the adapters ask for
Tick_LockTTL ==
    /\ ~fatal
    /\ now <= MaxTime
    /\ now' = now + LockTTL
    /\ UNCHANGED <<fatal, lockVars, keysetVars, adapterVars, extractorVars, storeVars,
                   backendVars>>

(***************************************************************************)
(* SpecLock                                                                *)
(***************************************************************************)
\* A lease is recorded for the worker whose LockState returned true.
Granted(w, k, exp) == [lgrant EXCEPT ![w] = [key |-> k, exp |-> exp]]

\* UnlockState(k) released the lease on k, whoever held it.
Released(k) == [w \in Workers |-> IF lgrant[w].key = k THEN NoGrant ELSE lgrant[w]]

\* state.go: MemoryManager.CreateState, under m.mu
MemoryManager_CreateState(k) ==
    /\ ~fatal
    /\ lmgr = "MemoryManager"
    /\ k \notin DOMAIN lstates
    /\ lstates' = MapSet(lstates, k, NewState(<<>>, k, 0, now))
    /\ UNCHANGED <<now, fatal, lmgr, llocks, lpc, lkey, ldur, lret, lgrant>>
    /\ UNCHANGED notLock

\* state.go: MemoryManager.LockState, the whole body under m.mu
MemoryManager_LockState(w, k, d) ==
    /\ ~fatal
    /\ lmgr = "MemoryManager"
    /\ lpc[w] = "idle"
    /\ IF k \notin DOMAIN lstates
         THEN /\ lret' = [lret EXCEPT ![w] = "error"]
              /\ UNCHANGED <<llocks, lgrant>>
         ELSE IF LockLive(llocks, k, now)
           THEN /\ lret' = [lret EXCEPT ![w] = "false"]
                /\ UNCHANGED <<llocks, lgrant>>
           ELSE /\ llocks' = MapSet(llocks, k, now + d)
                /\ lret' = [lret EXCEPT ![w] = "true"]
                /\ lgrant' = Granted(w, k, now + d)
    /\ UNCHANGED <<now, fatal, lmgr, lstates, lpc, lkey, ldur>>
    /\ UNCHANGED notLock

\* state.go: MemoryManager.UnlockState, under m.mu
MemoryManager_UnlockState(w, k) ==
    /\ ~fatal
    /\ lmgr = "MemoryManager"
    /\ lpc[w] = "idle"
    /\ IF k \notin DOMAIN llocks
         THEN UNCHANGED <<llocks, lgrant>>
         ELSE /\ llocks' = MapDelete(llocks, k)
              /\ lgrant' = Released(k)
    /\ UNCHANGED <<now, fatal, lmgr, lstates, lpc, lkey, ldur, lret>>
    /\ UNCHANGED notLock

\* memory_state_manager.go: MemoryStateManager.LockState, under m.mu
MemoryStateManager_LockState(w, k, d) ==
    /\ ~fatal
    /\ lmgr = "MemoryStateManager"
    /\ lpc[w] = "idle"
    /\ IF LockLive(llocks, k, now)
         THEN /\ lret' = [lret EXCEPT ![w] = "false"]
              /\ UNCHANGED <<llocks, lgrant>>
         ELSE /\ llocks' = MapSet(llocks, k, now + d)
              /\ lret' = [lret EXCEPT ![w] = "true"]
              /\ lgrant' = Granted(w, k, now + d)
    /\ UNCHANGED <<now, fatal, lmgr, lstates, lpc, lkey, ldur>>
    /\ UNCHANGED notLock

\* memory_state_manager.go: MemoryStateManager.UnlockState, under m.mu
MemoryStateManager_UnlockState(w, k) ==
    /\ ~fatal
    /\ lmgr = "MemoryStateManager"
    /\ lpc[w] = "idle"
    /\ llocks' = MapDelete(llocks, k)
    /\ lgrant' = Released(k)
    /\ UNCHANGED <<now, fatal, lmgr, lstates, lpc, lkey, ldur, lret>>
    /\ UNCHANGED notLock

\* memory_state_manager.go (context variant): MemoryManager.LockState has no
\* mutex.  Its first statement reads m.locks ...
CtxMemoryManager_LockState_Check(w, k, d) ==
    /\ ~fatal
    /\ lmgr = "CtxMemoryManager"
    /\ lpc[w] = "idle"
    /\ IF LockLive(llocks, k, now)
         THEN /\ lret' = [lret EXCEPT ![w] = "false"]
              /\ UNCHANGED <<lpc, lkey, ldur>>
         ELSE /\ lpc' = [lpc EXCEPT ![w] = "set"]
              /\ lkey' = [lkey EXCEPT ![w] = k]
              /\ ldur' = [ldur EXCEPT ![w] = d]
              /\ UNCHANGED lret
    /\ UNCHANGED <<now, fatal, lmgr, lstates, llocks, lgrant>>
    /\ UNCHANGED notLock

\* ... and its second writes m.locks[jobID] = time.Now().Add(ttl), true.
CtxMemoryManager_LockState_Set(w) ==
    /\ ~fatal
    /\ lmgr = "CtxMemoryManager"
    /\ lpc[w] = "set"
    /\ llocks' = MapSet(llocks, lkey[w], now + ldur[w])
    /\ lret' = [lret EXCEPT ![w] = "true"]
    /\ lgrant' = Granted(w, lkey[w], now + ldur[w])
    /\ lpc' = [lpc EXCEPT ![w] = "idle"]
    /\ lkey' = [lkey EXCEPT ![w] = "t1"]
    /\ ldur' = [ldur EXCEPT ![w] = 1]
    /\ UNCHANGED <<now, fatal, lmgr, lstates>>
    /\ UNCHANGED notLock

\* memory_state_manager.go (context variant): MemoryManager.UnlockState
CtxMemoryManager_UnlockState(w, k) ==
    /\ ~fatal
    /\ lmgr = "CtxMemoryManager"
    /\ lpc[w] = "idle"
    /\ llocks' = MapDelete(llocks, k)
    /\ lgrant' = Released(k)
    /\ UNCHANGED <<now, fatal, lmgr, lstates, lpc, lkey, ldur, lret>>
    /\ UNCHANGED notLock

\* Two goroutines about to write the same unguarded map: the runtime may
\* detect it and end the process with "fatal error: concurrent map writes".
CtxMemoryManager_ConcurrentMapWrites ==
    /\ ~fatal
    /\ lmgr = "CtxMemoryManager"
    /\ \E w1, w2 \in Workers : w1 # w2 /\ lpc[w1] = "set" /\ lpc[w2] = "set"
    /\ fatal' = TRUE
    /\ UNCHANGED <<now, lockVars, notLock>>

(***************************************************************************)
(* SpecKeyset: MSSQL.ExtractData (internal/database/mssql.go) run by       *)
(* concurrent workers of one process over the context-variant              *)
(* MemoryManager.  The manager has no mutex, so each of its map reads and  *)
(* map writes is a step of its own.                                        *)
(***************************************************************************)
\* fmt.Sprintf("%s-%s-%d", m.config.Database, table, time.Now().UnixNano())
JobID(database, table, t) == <<database, table, t>>

\* The rows of the source table, named by their primary key.
TableKeys == 1..NRows

RECURSIVE Ascending(_)
Ascending(S) ==
    IF S = {} THEN <<>>
    ELSE LET m == CHOOSE x \in S : \A y \in S : x <= y
         IN <<m>> \o Ascending(S \ {m})

Take(seq, n) == SubSeq(seq, 1, IF n < Len(seq) THEN n ELSE Len(seq))

\* SELECT ... WHERE pk > @p1 ORDER BY pk FETCH NEXT batchSize ROWS ONLY;
\* without stored LastValues the WHERE clause is empty.
KeysetPage(lastValues, batchSize) ==
    LET after == IF lastValues = <<>> THEN TableKeys
                 ELSE {r \in TableKeys : r > lastValues[1]}
    IN Take(Ascending(after), batchSize)

KeysetDatabase == "db"
KeysetTable == "t1"

\* mssql.go 121-122: jobID, then m.state.GetState(ctx, jobID)
MSSQL_GetState(w) ==
    /\ ~fatal
    /\ kpc[w] = "idle"
    /\ LET j == JobID(KeysetDatabase, KeysetTable, now) IN
         /\ kjob' = [kjob EXCEPT ![w] = j]
         /\ IF j \in DOMAIN kstates
              THEN /\ kptr' = [kptr EXCEPT ![w] = kstates[j]]
                   /\ kpc' = [kpc EXCEPT ![w] = "lockChk"]
              ELSE /\ kptr' = [kptr EXCEPT ![w] = 0]
                   /\ kpc' = [kpc EXCEPT ![w] = "createChk"]
    /\ UNCHANGED <<now, fatal, kstates, kheap, klocks, kpage, kres>>
    /\ UNCHANGED notKeyset

\* mssql.go 127-136: the new State, and CreateState's existence test
MSSQL_CreateState_Check(w) ==
    /\ ~fatal
    /\ kpc[w] = "createChk"
    /\ kheap' = MapSet(kheap, w, NewState(kjob[w], KeysetTable, 0, now))
    /\ kptr' = [kptr EXCEPT ![w] = w]
    /\ IF kjob[w] \in DOMAIN kstates
         THEN /\ kpc' = [kpc EXCEPT ![w] = "done"]
              /\ kres' = [kres EXCEPT ![w] = "error: failed to create state"]
         ELSE /\ kpc' = [kpc EXCEPT ![w] = "createIns"]
              /\ UNCHANGED kres
    /\ UNCHANGED <<now, fatal, kstates, klocks, kjob, kpage>>
    /\ UNCHANGED notKeyset

\* CreateState's m.states[state.JobID] = state
MSSQL_CreateState_Insert(w) ==
    /\ ~fatal
    /\ kpc[w] = "createIns"
    /\ kstates' = MapSet(kstates, kjob[w], kptr[w])
    /\ kpc' = [kpc EXCEPT ![w] = "lockChk"]
    /\ UNCHANGED <<now, fatal, kheap, klocks, kjob, kptr, kpage, kres>>
    /\ UNCHANGED notKeyset

\* mssql.go 142-148: LockState's test of m.locks
MSSQL_LockState_Check(w) ==
    /\ ~fatal
    /\ kpc[w] = "lockChk"
    /\ IF LockLive(klocks, kjob[w], now)
         THEN /\ kpc' = [kpc EXCEPT ![w] = "done"]
              /\ kres' = [kres EXCEPT ![w] = "error: another process is already running this extraction"]
         ELSE /\ kpc' = [kpc EXCEPT ![w] = "lockSet"]
              /\ UNCHANGED kres
    /\ UNCHANGED <<now, fatal, kstates, kheap, klocks, kjob, kptr, kpage>>
    /\ UNCHANGED notKeyset

\* LockState's m.locks[jobID] = time.Now().Add(ttl)
MSSQL_LockState_Set(w) ==
    /\ ~fatal
    /\ kpc[w] = "lockSet"
    /\ klocks' = MapSet(klocks, kjob[w], now + LockTTL)
    /\ kpc' = [kpc EXCEPT ![w] = "locked"]
    /\ UNCHANGED <<now, fatal, kstates, kheap, kjob, kptr, kpage, kres>>
    /\ UNCHANGED notKeyset

\* The error paths of ExtractData: mark the State failed, UpdateState, return.
MSSQL_Fail(w, at, msg) ==
    /\ ~fatal
    /\ kpc[w] = at
    /\ kheap' = [kheap EXCEPT ![kptr[w]] = MarkFailed(@, msg)]
    /\ kstates' = MapSet(kstates, kheap[kptr[w]].JobID, kptr[w])
    /\ kres' = [kres EXCEPT ![w] = "error: " \o msg]
    /\ kpc' = [kpc EXCEPT ![w] = "ret"]
    /\ UNCHANGED <<now, fatal, klocks, kjob, kptr, kpage>>
    /\ UNCHANGED notKeyset

\* mssql.go 152-158: getPrimaryKeyColumns fails
MSSQL_PrimaryKeyFails(w) == MSSQL_Fail(w, "locked", "failed to get primary key columns")

\* mssql.go 152-244: the primary key is found, and the keyset query, built
\* from state.LastValues, is run and every row of it scanned
MSSQL_Query(w) ==
    /\ ~fatal
    /\ kpc[w] = "locked"
    /\ \E batchSize \in 1..MaxBatch :
         kpage' = [kpage EXCEPT ![w] = KeysetPage(kheap[kptr[w]].LastValues, batchSize)]
    /\ kpc' = [kpc EXCEPT ![w] = "update"]
    /\ UNCHANGED <<now, fatal, kstates, kheap, klocks, kjob, kptr, kres>>
    /\ UNCHANGED notKeyset

\* mssql.go 210-216: QueryContext fails
MSSQL_QueryFails(w) == MSSQL_Fail(w, "locked", "failed to execute query")

\* mssql.go 228-233: rows.Scan fails
MSSQL_ScanFails(w) == MSSQL_Fail(w, "locked", "failed to scan row")

\* mssql.go 239-244: rows.Err() is not nil
MSSQL_RowsErr(w) == MSSQL_Fail(w, "locked", "error iterating rows")

\* mssql.go 246-254: the State advanced by the page, UpdateState, return result
MSSQL_UpdateState(w) ==
    /\ ~fatal
    /\ kpc[w] = "update"
    /\ LET page == kpage[w]
           last == IF page = <<>> THEN <<>> ELSE <<page[Len(page)]>>
       IN kheap' = [kheap EXCEPT ![kptr[w]] =
                      [@ EXCEPT !.LastValues = last,
                                !.LastUpdated = now,
                                !.ProcessedRows = @ + Len(page)]]
    /\ kstates' = MapSet(kstates, kheap[kptr[w]].JobID, kptr[w])
    /\ kres' = [kres EXCEPT ![w] = "ok"]
    /\ kpc' = [kpc EXCEPT ![w] = "ret"]
    /\ UNCHANGED <<now, fatal, klocks, kjob, kptr, kpage>>
    /\ UNCHANGED notKeyset

\* mssql.go 149: the deferred m.state.UnlockState(ctx, jobID)
MSSQL_Return(w) ==
    /\ ~fatal
    /\ kpc[w] = "ret"
    /\ klocks' = MapDelete(klocks, kjob[w])
    /\ kpc' = [kpc EXCEPT ![w] = "done"]
    /\ UNCHANGED <<now, fatal, kstates, kheap, kjob, kptr, kpage, kres>>
    /\ UNCHANGED notKeyset

\* Two goroutines about to write m.states, or m.locks, at once.
MSSQL_ConcurrentMapWrites ==
    /\ ~fatal
    /\ \E w1, w2 \in Workers :
         /\ w1 # w2
         /\ \/ kpc[w1] = "createIns" /\ kpc[w2] = "createIns"
            \/ kpc[w1] = "lockSet" /\ kpc[w2] = "lockSet"
    /\ fatal' = TRUE
    /\ UNCHANGED <<now, keysetVars>>
    /\ UNCHANGED notKeyset

(***************************************************************************)
(* The table-keyed Manager interface (state.go), as the adapters call it   *)
(***************************************************************************)
\* GetState: MemoryManager returns an error for a missing key,
\* MemoryStateManager returns (nil, nil)
Manager_GetState(mgr, states, table) ==
    IF table \in DOMAIN states THEN [err |-> "", found |-> TRUE]
    ELSE IF mgr = "MemoryManager"
         THEN [err |-> "state not found for table", found |-> FALSE]
         ELSE [err |-> "", found |-> FALSE]

\* CreateState: MemoryManager refuses an existing key, MemoryStateManager overwrites
Manager_CreateState(mgr, states, st) ==
    IF mgr = "MemoryManager" /\ st.Table \in DOMAIN states
    THEN [err |-> "state already exists for table", states |-> states]
    ELSE [err |-> "", states |-> MapSet(states, st.Table, st)]

\* UpdateState that stamps LastUpdated and drops the count
Manager_UpdateState_Lost(mgr, states, locks, table, processedRows, t) ==
    IF table \notin DOMAIN states
    THEN [err |-> IF mgr = "MemoryManager" THEN "state not found for table" ELSE "",
          states |-> states]
    ELSE [err |-> "", states |-> [states EXCEPT ![table] = [@ EXCEPT !.LastUpdated = t]]]

\* UpdateState without MemoryManager's check of the lock
Manager_UpdateState_IgnoreLock(mgr, states, locks, table, processedRows, t) ==
    IF table \notin DOMAIN states
    THEN [err |-> IF mgr = "MemoryManager" THEN "state not found for table" ELSE "",
          states |-> states]
    ELSE [err |-> "",
          states |-> [states EXCEPT ![table] =
                        [@ EXCEPT !.ProcessedRows = processedRows, !.LastUpdated = t]]]

\* UpdateState: MemoryManager fails on a missing key and on a live lock,
\* MemoryStateManager silently does nothing on a missing key
Manager_UpdateState(mgr, states, locks, table, processedRows, t) ==
    IF table \notin DOMAIN states
    THEN [err |-> IF mgr = "MemoryManager" THEN "state not found for table" ELSE "",
          states |-> states]
    ELSE IF mgr = "MemoryManager" /\ LockLive(locks, table, t)
    THEN [err |-> "state is locked for table", states |-> states]
    ELSE [err |-> "",
          states |-> [states EXCEPT ![table] =
                        [@ EXCEPT !.ProcessedRows = processedRows, !.LastUpdated = t]]]

(***************************************************************************)
(* SpecAdapter: ExtractData(table, outputFile, format, batchSize, ...) of  *)
(* the adapters that write the output file themselves: DuckDB              *)
(* (duckdb_darwin.go) and Snowflake page with LIMIT/OFFSET up to           *)
(* GetTotalRows, Postgres and BigQuery stream one query.  One process,     *)
(* one table, one output file, calls one after the other.                  *)
(***************************************************************************)
Adapters == {"duckdb", "snowflake", "postgres", "bigquery"}
BatchAdapters == {"duckdb", "snowflake"}
StreamAdapters == {"postgres", "bigquery"}
Formats == {"csv", "parquet"}
AdapterTable == "t1"

NoFile == [exists |-> FALSE, header |-> 0, rows |-> <<>>]

\* the rows of the table that satisfy whereClause
Matching(size, where) == {r \in 1..size : r > where}

\* the orders in which a query may deliver the rows S
Orders(S) ==
    {f \in [1..Cardinality(S) -> S] : \A i, j \in 1..Cardinality(S) : i # j => f[i] # f[j]}

\* SELECT * FROM t [WHERE w] [ORDER BY keyColumns]: without ORDER BY the
\* source delivers the rows in any order
QueryOrders(S, keyColumns) == IF keyColumns # "" THEN {Ascending(S)} ELSE Orders(S)

\* ... LIMIT limit OFFSET offset
Page(order, offset, limit) ==
    SubSeq(order, offset + 1, IF offset + limit < Len(order) THEN offset + limit ELSE Len(order))

\* snowflake.go: "if count > 1000000"; the model scales the threshold to its
\* table sizes
ApproxThreshold == 1

\* SnowflakeDB.GetTotalRows: COUNT(*), replaced above the threshold by the
\* catalog's ROW_COUNT, a statistic that may be off in either direction
Snowflake_GetTotalRows(size) ==
    IF size > ApproxThreshold THEN {size - 1, size, size + 1} ELSE {size}

\* fmt.Fprintf(file, ...) of the rows, only "if format == csv"
WriteRows(file, format, rows) ==
    IF format = "csv" THEN [file EXCEPT !.rows = @ \o rows] ELSE file

\* os.Create(outputFile), then the header "if format == csv"
CreateFile(format) ==
    [exists |-> TRUE, header |-> IF format = "csv" THEN 1 ELSE 0, rows |-> <<>>]

adapterLocals == <<acur, atotal, aoffset, aprocessed, arows>>
adapterParams == <<aadapter, asize, aformat, abatch, akeys, awhere>>

\* a caller of the state package stores a checkpoint before the extraction
Caller_CreateState(status) ==
    /\ apc = "idle"
    /\ aruns = 0
    /\ LET c == Manager_CreateState(lmgr, lstates,
                  [NewState(<<>>, AdapterTable, 0, now) EXCEPT !.Status = status])
       IN /\ c.err = ""
          /\ AdapterTable \notin DOMAIN lstates
          /\ lstates' = c.states
    /\ UNCHANGED <<now, fatal, lmgr, llocks, adapterVars>>
    /\ UNCHANGED notAdapter

\* ExtractData: GetState, and CreateState "if err != nil"
Adapter_GetState ==
    /\ apc = "idle"
    /\ aruns < MaxRuns
    /\ aruns' = aruns + 1
    /\ ares' = "none"
    /\ LET g == Manager_GetState(lmgr, lstates, AdapterTable)
           c == Manager_CreateState(lmgr, lstates, NewState(<<>>, AdapterTable, 0, now))
       IN IF g.err # ""
          THEN IF c.err # ""
               THEN /\ apc' = "done"
                    /\ ares' = "error: failed to create state"
                    /\ UNCHANGED <<lstates, acur>>
               ELSE /\ lstates' = c.states
                    /\ acur' = "running"
                    /\ apc' = "prep"
          ELSE /\ acur' = IF g.found THEN lstates[AdapterTable].Status ELSE "nil"
               /\ apc' = "prep"
               /\ UNCHANGED lstates
    /\ UNCHANGED <<now, fatal, lmgr, llocks, adapterParams, asignal, afile, atotal, aoffset,
                   aprocessed, arows>>
    /\ UNCHANGED notAdapter

\* MkdirAll, GetTotalRows, GetColumns, getPrimaryKeyColumns, the query or
\* os.Create fails: ExtractData returns the error
Adapter_PrepareFails ==
    /\ apc = "prep"
    /\ apc' = "done"
    /\ ares' = "error: failed before the output was created"
    /\ UNCHANGED <<now, fatal, lmgr, lstates, llocks, adapterParams, asignal, adapterLocals,
                   afile, aruns>>
    /\ UNCHANGED notAdapter

\* bigquery.go 68-72: on an empty table it.Next(&firstRow) returns iterator.Done
BigQuery_FirstRowFails ==
    /\ apc = "prep"
    /\ aadapter = "bigquery"
    /\ asize = 0
    /\ apc' = "done"
    /\ ares' = "error: failed to read first row"
    /\ UNCHANGED <<now, fatal, lmgr, lstates, llocks, adapterParams, asignal, adapterLocals,
                   afile, aruns>>
    /\ UNCHANGED notAdapter

\* duckdb_darwin.go 61-88, snowflake.go 95-122: totalRows, columns, os.Create, header
Batch_Open ==
    /\ apc = "prep"
    /\ aadapter \in BatchAdapters
    /\ atotal' \in (IF aadapter = "snowflake" THEN Snowflake_GetTotalRows(asize) ELSE {asize})
    /\ afile' = CreateFile(aformat)
    /\ aoffset' = 0
    /\ aprocessed' = 0
    /\ apc' = "loop"
    /\ UNCHANGED <<now, fatal, lmgr, lstates, llocks, adapterParams, asignal, acur, arows, ares, aruns>>
    /\ UNCHANGED notAdapter

\* one iteration of "for offset := 0; offset < totalRows; offset += batchSize":
\* ExtractBatch, the rows written, UpdateState
Batch_Iteration ==
    /\ apc = "loop"
    /\ aadapter \in BatchAdapters
    /\ aoffset < atotal
    /\ \E order \in QueryOrders(Matching(asize, awhere), akeys) :
         LET page == Page(order, aoffset, abatch)
             u == Manager_UpdateState(lmgr, lstates, llocks, AdapterTable,
                                      aprocessed + Len(page), now)
         IN /\ afile' = WriteRows(afile, aformat, page)
            /\ aprocessed' = aprocessed + Len(page)
            /\ lstates' = u.states
            /\ IF u.err # ""
                 THEN /\ apc' = "done"
                      /\ ares' = "error: failed to update state"
                      /\ UNCHANGED aoffset
                 ELSE /\ aoffset' = aoffset + abatch
                      /\ UNCHANGED <<apc, ares>>
    /\ UNCHANGED <<now, fatal, lmgr, llocks, adapterParams, asignal, acur, atotal, arows, aruns>>
    /\ UNCHANGED notAdapter

\* ExtractBatch returns an error
Batch_ExtractBatchFails ==
    /\ apc = "loop"
    /\ aadapter \in BatchAdapters
    /\ aoffset < atotal
    /\ apc' = "done"
    /\ ares' = "error: failed to extract batch"
    /\ UNCHANGED <<now, fatal, lmgr, lstates, llocks, adapterParams, asignal, adapterLocals,
                   afile, aruns>>
    /\ UNCHANGED notAdapter

\* fmt.Fprintf fails on the n-th row of the page
Batch_WriteFails ==
    /\ apc = "loop"
    /\ aadapter \in BatchAdapters
    /\ aoffset < atotal
    /\ aformat = "csv"
    /\ \E order \in QueryOrders(Matching(asize, awhere), akeys) :
         LET page == Page(order, aoffset, abatch)
         IN \E n \in 1..Len(page) :
              /\ afile' = WriteRows(afile, aformat, SubSeq(page, 1, n - 1))
              /\ aprocessed' = aprocessed + (n - 1)
    /\ apc' = "done"
    /\ ares' = "error: failed to write row"
    /\ UNCHANGED <<now, fatal, lmgr, lstates, llocks, adapterParams, asignal, acur, atotal,
                   aoffset, arows, aruns>>
    /\ UNCHANGED notAdapter

\* the loop condition fails: return nil
Batch_Done ==
    /\ apc = "loop"
    /\ aadapter \in BatchAdapters
    /\ aoffset >= atotal
    /\ apc' = "done"
    /\ ares' = "ok"
    /\ UNCHANGED <<now, fatal, lmgr, lstates, llocks, adapterParams, asignal, adapterLocals,
                   afile, aruns>>
    /\ UNCHANGED notAdapter

\* postgres.go 115-161: the one query, os.Create, header
Postgres_Open ==
    /\ apc = "prep"
    /\ aadapter = "postgres"
    /\ arows' \in Orders(1..asize)
    /\ afile' = CreateFile(aformat)
    /\ aprocessed' = 0
    /\ apc' = "loop"
    /\ UNCHANGED <<now, fatal, lmgr, lstates, llocks, adapterParams, asignal, acur, atotal,
                   aoffset, ares, aruns>>
    /\ UNCHANGED notAdapter

\* bigquery.go 57-107: the one query, the first row read, os.Create, header
\* and first row, processedRows := 1
BigQuery_Open ==
    /\ apc = "prep"
    /\ aadapter = "bigquery"
    /\ asize > 0
    /\ \E order \in Orders(1..asize) :
         /\ arows' = Tail(order)
         /\ afile' = WriteRows(CreateFile(aformat), aformat, <<Head(order)>>)
    /\ aprocessed' = 1
    /\ apc' = "loop"
    /\ UNCHANGED <<now, fatal, lmgr, lstates, llocks, adapterParams, asignal, acur, atotal,
                   aoffset, ares, aruns>>
    /\ UNCHANGED notAdapter

\* one iteration of the row loop: the row read and written, processedRows++,
\* UpdateState every batchSize rows
Stream_Row ==
    /\ apc = "loop"
    /\ aadapter \in StreamAdapters
    /\ arows # <<>>
    /\ arows' = Tail(arows)
    /\ afile' = WriteRows(afile, aformat, <<Head(arows)>>)
    /\ aprocessed' = aprocessed + 1
    /\ LET u == Manager_UpdateState(lmgr, lstates, llocks, AdapterTable, aprocessed + 1, now)
       IN IF (aprocessed + 1) % abatch = 0
          THEN /\ lstates' = u.states
               /\ IF u.err # ""
                    THEN /\ apc' = "done"
                         /\ ares' = "error: failed to update state"
                    ELSE UNCHANGED <<apc, ares>>
          ELSE UNCHANGED <<lstates, apc, ares>>
    /\ UNCHANGED <<now, fatal, lmgr, llocks, adapterParams, asignal, acur, atotal, aoffset, aruns>>
    /\ UNCHANGED notAdapter

\* postgres.go 163-165: rows.Scan fails; 191-193: rows.Err() after a failed
\* rows.Next
Postgres_RowFails ==
    /\ apc = "loop"
    /\ aadapter = "postgres"
    /\ arows # <<>>
    /\ apc' = "done"
    /\ ares' \in {"error: failed to scan row", "error: error iterating rows"}
    /\ UNCHANGED <<now, fatal, lmgr, lstates, llocks, adapterParams, asignal, adapterLocals,
                   afile, aruns>>
    /\ UNCHANGED notAdapter

\* bigquery.go 110-113: it.Next fails, with iterator.Done or with any other
\* error: break
BigQuery_NextFails ==
    /\ apc = "loop"
    /\ aadapter = "bigquery"
    /\ apc' = "final"
    /\ UNCHANGED <<now, fatal, lmgr, lstates, llocks, adapterParams, asignal, adapterLocals,
                   afile, ares, aruns>>
    /\ UNCHANGED notAdapter

\* postgres.go 177-179, bigquery.go 125-127: fmt.Fprintf of the row fails
Stream_WriteFails ==
    /\ apc = "loop"
    /\ aadapter \in StreamAdapters
    /\ arows # <<>>
    /\ aformat = "csv"
    /\ apc' = "done"
    /\ ares' = "error: failed to write row"
    /\ UNCHANGED <<now, fatal, lmgr, lstates, llocks, adapterParams, asignal, adapterLocals,
                   afile, aruns>>
    /\ UNCHANGED notAdapter

\* postgres.go 162, 191: rows.Next() is false and rows.Err() is nil
Postgres_RowsEnd ==
    /\ apc = "loop"
    /\ aadapter = "postgres"
    /\ arows = <<>>
    /\ apc' = "final"
    /\ UNCHANGED <<now, fatal, lmgr, lstates, llocks, adapterParams, asignal, adapterLocals,
                   afile, ares, aruns>>
    /\ UNCHANGED notAdapter

\* "Update final state", return nil
Stream_FinalUpdate ==
    /\ apc = "final"
    /\ LET u == Manager_UpdateState(lmgr, lstates, llocks, AdapterTable, aprocessed, now)
       IN /\ lstates' = u.states
          /\ ares' = IF u.err # "" THEN "error: failed to update final state" ELSE "ok"
    /\ apc' = "done"
    /\ UNCHANGED <<now, fatal, lmgr, llocks, adapterParams, asignal, adapterLocals, afile, aruns>>
    /\ UNCHANGED notAdapter

\* main.go 136-137: signal.Notify(sigChan, SIGINT, SIGTERM) takes the signal
\* away from the runtime's default handler and puts it into sigChan, which no
\* code reads: the signal arrives while ExtractData runs
Main_Signal ==
    /\ apc \in {"prep", "loop", "final"}
    /\ ~asignal
    /\ asignal' = TRUE
    /\ UNCHANGED <<now, fatal, lmgr, lstates, llocks, adapterParams, adapterLocals,
                   afile, apc, ares, aruns>>
    /\ UNCHANGED notAdapter

\* the caller calls ExtractData again, with the same arguments
Adapter_Again ==
    /\ apc = "done"
    /\ aruns < MaxRuns
    /\ apc' = "idle"
    /\ acur' = "nil"
    /\ atotal' = 0
    /\ aoffset' = 0
    /\ aprocessed' = 0
    /\ arows' = <<>>
    /\ asignal' = FALSE
    /\ UNCHANGED <<now, fatal, lmgr, lstates, llocks, adapterParams, afile, ares, aruns>>
    /\ UNCHANGED notAdapter

(***************************************************************************)
(* SpecExtractor: pkg/extractor.  A process makes an Extractor with        *)
(* NewExtractor, may call LoadCheckpoint, calls Extract and, after it      *)
(* returned, SaveCheckpoint; the process may be killed while Extract runs, *)
(* and its context may be cancelled.  The output file and the checkpoint   *)
(* file outlive the process, the Extractor does not.                       *)
(***************************************************************************)
ExtractorFormats == {"csv", "parquet", "json"}
HeaderLine == 0

\* the data rows of the output file, in file order
DataRows(lines) == SelectSeq(lines, LAMBDA l : l # HeaderLine)

\* deferred writer.Flush() of extractToCSV: the buffered lines reach the file
Flushed(file, buf) == file \o buf

\* NewExtractor: lastID 0, checkpoint nil
NewExtractorLocals ==
    /\ ebuf' = <<>>
    /\ elastID' = 0
    /\ echeckpoint' = <<>>
    /\ eloaded' = FALSE
    /\ eoffset' = 0
    /\ etotal' = 0
    /\ epage' = <<>>
    /\ ecancel' = FALSE
    /\ eres' = "none"
    /\ epc' = "new"

extractorParams == <<esize, ebatch, eformat>>

\* the table of the Extractor, and the table of another Extractor whose
\* output file has the same name up to its extension: getCheckpointFile gives
\* both the same checkpoint file
ExtractorTable == "t1"
OtherTable == "t2"

\* Checkpoint{Table, LastOffset} as the checkpoint file holds it
CheckpointOf(table, lastID) == <<lastID, table>>

\* a LoadCheckpoint that takes over the file's checkpoint before it verifies
\* the table name
LoadCheckpoint_AssignsFirst ==
    /\ epc = "new"
    /\ \E opened \in BOOLEAN :
         IF eckfile = <<>>
         THEN /\ ecall' = "load-nofile"
              /\ UNCHANGED <<echeckpoint, elastID, eloaded>>
         ELSE IF ~opened
         THEN /\ ecall' = "load-error"
              /\ UNCHANGED <<echeckpoint, elastID, eloaded>>
         ELSE /\ echeckpoint' = eckfile
              /\ elastID' = eckfile[1]
              /\ IF eckfile[2] # ExtractorTable
                   THEN /\ ecall' = "load-error"
                        /\ UNCHANGED eloaded
                   ELSE /\ ecall' = "load"
                        /\ eloaded' = TRUE
    /\ UNCHANGED <<extractorParams, efile, eckfile, ebuf, epc, eoffset, etotal, epage,
                   ecancel, eres, eprev, eruns>>
    /\ UNCHANGED notExtractor

\* LoadCheckpoint, called by a new process before Extract: without a
\* checkpoint file it returns nil; when os.Open or Decode fails, or the
\* file's table is not e.table, it returns the error; else it sets
\* e.checkpoint and e.lastID
LoadCheckpoint ==
    /\ epc = "new"
    /\ \E opened \in BOOLEAN :
         IF eckfile = <<>>
         THEN /\ ecall' = "load-nofile"
              /\ UNCHANGED <<echeckpoint, elastID, eloaded>>
         ELSE IF ~opened \/ eckfile[2] # ExtractorTable
         THEN /\ ecall' = "load-error"
              /\ UNCHANGED <<echeckpoint, elastID, eloaded>>
         ELSE /\ echeckpoint' = eckfile
              /\ elastID' = eckfile[1]
              /\ eloaded' = TRUE
              /\ ecall' = "load"
    /\ UNCHANGED <<extractorParams, efile, eckfile, ebuf, epc, eoffset, etotal, epage,
                   ecancel, eres, eprev, eruns>>
    /\ UNCHANGED notExtractor

\* the other Extractor, new, saves its checkpoint (its lastID is 0).  The
\* Extract of this Extractor neither reads nor writes the checkpoint file,
\* so a write during it is a write right after it
Other_SaveCheckpoint ==
    /\ epc \in {"new", "done"}
    /\ eckfile # CheckpointOf(OtherTable, 0)
    /\ eckfile' = CheckpointOf(OtherTable, 0)
    /\ ecall' = "none"
    /\ UNCHANGED <<extractorParams, efile, ebuf, epc, elastID, echeckpoint, eloaded,
                   eoffset, etotal, epage, ecancel, eres, eprev, eruns>>
    /\ UNCHANGED notExtractor

\* SaveCheckpoint: e.checkpoint is filled from e.lastID only "if e.checkpoint
\* == nil"; then os.Create of the checkpoint file, which may fail, and Encode
SaveCheckpoint ==
    /\ epc \in {"new", "done"}
    /\ LET cp == IF echeckpoint = <<>> THEN CheckpointOf(ExtractorTable, elastID)
                 ELSE echeckpoint
       IN /\ echeckpoint' = cp
          /\ \E created \in BOOLEAN :
               /\ eckfile' = IF created THEN cp ELSE eckfile
               /\ ecall' = IF created THEN "save-ok" ELSE "save-error"
    /\ UNCHANGED <<extractorParams, efile, ebuf, epc, elastID, eloaded, eoffset, etotal,
                   epage, ecancel, eres, eprev, eruns>>
    /\ UNCHANGED notExtractor

\* Extract up to the batch loop: ctx.Err(), GetTotalRows, GetColumns,
\* os.Create(e.outputFile), the switch on e.format, the header
Extract_Begin ==
    /\ epc \in {"new", "done"}
    /\ eruns < MaxRuns
    /\ eruns' = eruns + 1
    /\ \E cancelled \in BOOLEAN :
         IF cancelled
         THEN /\ epc' = "done"
              /\ eres' = "canceled"
              /\ UNCHANGED <<efile, ebuf, eoffset, etotal, ecancel>>
         ELSE /\ etotal' \in Snowflake_GetTotalRows(esize)
              /\ efile' = <<>>
              /\ ebuf' = IF eformat = "csv" THEN <<HeaderLine>> ELSE <<>>
              /\ eoffset' = elastID
              /\ ecancel' = FALSE
              /\ IF eformat \in {"csv", "parquet"}
                   THEN /\ epc' = "loop"
                        /\ eres' = "none"
                   ELSE /\ epc' = "done"
                        /\ eres' = "error: unsupported format"
    /\ UNCHANGED <<extractorParams, eckfile, elastID, echeckpoint, eloaded, epage, eprev>>
    /\ ecall' = "none"
    /\ UNCHANGED notExtractor

\* GetTotalRows, GetColumns or os.Create fails
Extract_PrepareFails ==
    /\ epc \in {"new", "done"}
    /\ eruns < MaxRuns
    /\ eruns' = eruns + 1
    /\ epc' = "done"
    /\ eres' = "error: failed before the output was created"
    /\ UNCHANGED <<extractorParams, efile, eckfile, ebuf, elastID, echeckpoint, eloaded,
                   eoffset, etotal, epage, ecancel, eprev>>
    /\ ecall' = "none"
    /\ UNCHANGED notExtractor

\* the context of the running Extract is cancelled
Ctx_Cancel ==
    /\ epc \in {"loop", "rows"}
    /\ ~ecancel
    /\ ecancel' = TRUE
    /\ UNCHANGED <<extractorParams, efile, eckfile, ebuf, epc, elastID, echeckpoint,
                   eloaded, eoffset, etotal, epage, eres, eprev, eruns>>
    /\ ecall' = "none"
    /\ UNCHANGED notExtractor

\* Extract returns: the deferred Flush and file.Close
ExtractReturns(result) ==
    /\ efile' = Flushed(efile, ebuf)
    /\ ebuf' = <<>>
    /\ epc' = "done"
    /\ eres' = result
    /\ UNCHANGED <<extractorParams, eckfile, elastID, echeckpoint, eloaded, eoffset,
                   etotal, epage, ecancel, eprev, eruns>>
    /\ ecall' = "none"
    /\ UNCHANGED notExtractor

\* the batch loop with e.lastID advanced when the page is fetched, before its
\* rows are written
Extract_Batch_AdvancesFirst ==
    /\ epc = "loop"
    /\ eoffset < etotal
    /\ ~ecancel
    /\ \E order \in Orders(1..esize) : epage' = Page(order, eoffset, ebatch)
    /\ epc' = "rows"
    /\ elastID' = eoffset + ebatch
    /\ UNCHANGED <<extractorParams, efile, eckfile, ebuf, echeckpoint, eloaded,
                   eoffset, etotal, ecancel, eres, eprev, eruns>>
    /\ ecall' = "none"
    /\ UNCHANGED notExtractor

\* "for offset := e.lastID; offset < totalRows; ..." then ExtractBatch(table,
\* offset, batchSize, "", ""): a page of a query without ORDER BY
Extract_Batch ==
    /\ epc = "loop"
    /\ eoffset < etotal
    /\ ~ecancel
    /\ \E order \in Orders(1..esize) : epage' = Page(order, eoffset, ebatch)
    /\ epc' = "rows"
    /\ UNCHANGED <<extractorParams, efile, eckfile, ebuf, elastID, echeckpoint, eloaded,
                   eoffset, etotal, ecancel, eres, eprev, eruns>>
    /\ ecall' = "none"
    /\ UNCHANGED notExtractor

\* ExtractBatch returns an error
Extract_BatchFails ==
    /\ epc = "loop"
    /\ eoffset < etotal
    /\ ~ecancel
    /\ ExtractReturns("error: failed to extract batch")

\* "case <-ctx.Done(): return ctx.Err()", before a batch and before a row
Extract_Canceled ==
    /\ \/ epc = "loop" /\ eoffset < etotal
       \/ epc = "rows" /\ epage # <<>>
    /\ ecancel
    /\ ExtractReturns("canceled")

\* one row of the batch written: through csv.Writer's buffer, or straight to
\* the file by the parquet writer
Extract_WriteRow ==
    /\ epc = "rows"
    /\ epage # <<>>
    /\ ~ecancel
    /\ epage' = Tail(epage)
    /\ IF eformat = "csv"
         THEN /\ ebuf' = Append(ebuf, Head(epage))
              /\ UNCHANGED efile
         ELSE /\ efile' = Append(efile, Head(epage))
              /\ UNCHANGED ebuf
    /\ UNCHANGED <<extractorParams, eckfile, epc, elastID, echeckpoint, eloaded, eoffset,
                   etotal, ecancel, eres, eprev, eruns>>
    /\ ecall' = "none"
    /\ UNCHANGED notExtractor

\* writer.Write fails
Extract_WriteFails ==
    /\ epc = "rows"
    /\ epage # <<>>
    /\ ~ecancel
    /\ ExtractReturns("error: failed to write record")

\* csv.Writer's buffer is full and is written out
Csv_BufferFull ==
    /\ epc = "rows"
    /\ ebuf # <<>>
    /\ efile' = Flushed(efile, ebuf)
    /\ ebuf' = <<>>
    /\ UNCHANGED <<extractorParams, eckfile, epc, elastID, echeckpoint, eloaded, eoffset,
                   etotal, epage, ecancel, eres, eprev, eruns>>
    /\ ecall' = "none"
    /\ UNCHANGED notExtractor

\* the batch is written: e.lastID = offset + e.batchSize; offset += e.batchSize
Extract_BatchEnd ==
    /\ epc = "rows"
    /\ epage = <<>>
    /\ elastID' = eoffset + ebatch
    /\ eoffset' = eoffset + ebatch
    /\ epc' = "loop"
    /\ UNCHANGED <<extractorParams, efile, eckfile, ebuf, echeckpoint, eloaded, etotal,
                   epage, ecancel, eres, eprev, eruns>>
    /\ ecall' = "none"
    /\ UNCHANGED notExtractor

\* the loop condition fails: return nil
Extract_Done ==
    /\ epc = "loop"
    /\ eoffset >= etotal
    /\ ExtractReturns("ok")

\* the process is killed while Extract runs: what csv.Writer had buffered and
\* the Extractor are gone; a new process makes a new Extractor
Process_Crash ==
    /\ epc \in {"loop", "rows"}
    /\ eprev' = "crashed"
    /\ NewExtractorLocals
    /\ UNCHANGED <<extractorParams, efile, eckfile, eruns>>
    /\ ecall' = "none"
    /\ UNCHANGED notExtractor

\* the process ends after Extract returned; a new process makes a new Extractor
Process_Exit ==
    /\ epc = "done"
    /\ eprev' = eres
    /\ NewExtractorLocals
    /\ UNCHANGED <<extractorParams, efile, eckfile, eruns>>
    /\ ecall' = "none"
    /\ UNCHANGED notExtractor

(***************************************************************************)
(* SpecStore: the calls of the Manager interface (state.go 23-31) on the   *)
(* mutex-guarded MemoryManager and on MemoryStateManager.  Every method    *)
(* holds m.mu from its first to its last statement, so a call is one step. *)
(***************************************************************************)
StoreManagers == {"MemoryManager", "MemoryStateManager"}
StoreKey == "t1"

\* DeleteState: MemoryManager fails on a missing key and removes state and
\* lock; MemoryStateManager removes the state only and always returns nil
Manager_DeleteState(mgr, states, locks, key) ==
    IF mgr = "MemoryManager"
    THEN IF key \notin DOMAIN states
         THEN [err |-> "state not found for table", states |-> states, locks |-> locks]
         ELSE [err |-> "", states |-> MapDelete(states, key), locks |-> MapDelete(locks, key)]
    ELSE [err |-> "", states |-> MapDelete(states, key), locks |-> locks]

\* LockState without MemoryManager's check that the key has a state
Manager_LockState_Unchecked(mgr, states, locks, key, duration, t) ==
    IF LockLive(locks, key, t)
    THEN [ok |-> FALSE, err |-> "", locks |-> locks]
    ELSE [ok |-> TRUE, err |-> "", locks |-> MapSet(locks, key, t + duration)]

\* LockState: MemoryManager fails on a key without state; both refuse while
\* the stored expiry is after time.Now(), else store now + duration
Manager_LockState(mgr, states, locks, key, duration, t) ==
    IF mgr = "MemoryManager" /\ key \notin DOMAIN states
    THEN [ok |-> FALSE, err |-> "state not found for table", locks |-> locks]
    ELSE IF LockLive(locks, key, t)
    THEN [ok |-> FALSE, err |-> "", locks |-> locks]
    ELSE [ok |-> TRUE, err |-> "", locks |-> MapSet(locks, key, t + duration)]

\* UnlockState: MemoryManager fails when no lock is stored
Manager_UnlockState(mgr, locks, key) ==
    IF mgr = "MemoryManager" /\ key \notin DOMAIN locks
    THEN [err |-> "no lock found for table", locks |-> locks]
    ELSE [err |-> "", locks |-> MapDelete(locks, key)]

NoCall == [op |-> "none", w |-> 0, key |-> "", n |-> 0, err |-> "", ok |-> FALSE, got |-> <<>>]

Call(op, w, key, n, err, ok, got) ==
    [op |-> op, w |-> w, key |-> key, n |-> n, err |-> err, ok |-> ok, got |-> got]

\* GetState(table): the stored State, or nil
Store_GetState(w, k) ==
    /\ LET g == Manager_GetState(lmgr, lstates, k)
       IN scall' = Call("GetState", w, k, 0, g.err, FALSE,
                        IF g.found THEN <<lstates[k]>> ELSE <<>>)
    /\ UNCHANGED <<now, lstates, llocks, snext>>
    /\ UNCHANGED notStore

\* CreateState(&State{Table: table, LastUpdated: time.Now(), Status: "running"})
Store_CreateState(w, k) ==
    /\ LET c == Manager_CreateState(lmgr, lstates, NewState(<<>>, k, 0, now))
       IN /\ lstates' = c.states
          /\ scall' = Call("CreateState", w, k, 0, c.err, FALSE, <<>>)
    /\ UNCHANGED <<now, llocks, snext>>
    /\ UNCHANGED notStore

\* UpdateState(table, n)
Store_UpdateState(w, k, n) ==
    /\ LET u == Manager_UpdateState(lmgr, lstates, llocks, k, n, now)
       IN /\ lstates' = u.states
          /\ scall' = Call("UpdateState", w, k, n, u.err, FALSE, <<>>)
    /\ UNCHANGED <<now, llocks, snext>>
    /\ UNCHANGED notStore

\* DeleteState(table)
Store_DeleteState(w, k) ==
    /\ LET d == Manager_DeleteState(lmgr, lstates, llocks, k)
       IN /\ lstates' = d.states
          /\ llocks' = d.locks
          /\ scall' = Call("DeleteState", w, k, 0, d.err, FALSE, <<>>)
    /\ UNCHANGED <<now, snext>>
    /\ UNCHANGED notStore

\* LockState(table, duration)
Store_LockState(w, k, duration) ==
    /\ LET l == Manager_LockState(lmgr, lstates, llocks, k, duration, now)
       IN /\ llocks' = l.locks
          /\ scall' = Call("LockState", w, k, duration, l.err, l.ok, <<>>)
    /\ UNCHANGED <<now, lstates, snext>>
    /\ UNCHANGED notStore

\* UnlockState(table)
Store_UnlockState(w, k) ==
    /\ LET u == Manager_UnlockState(lmgr, llocks, k)
       IN /\ llocks' = u.locks
          /\ scall' = Call("UnlockState", w, k, 0, u.err, FALSE, <<>>)
    /\ UNCHANGED <<now, lstates, snext>>
    /\ UNCHANGED notStore

\* time passes between two calls
Store_Tick ==
    /\ \E t \in Times : t > now /\ now' = t
    /\ scall' = NoCall
    /\ UNCHANGED <<lstates, llocks, snext>>
    /\ UNCHANGED notStore

(***************************************************************************)
(* SpecUpdaters: the concurrent part of TestMemoryManager and              *)
(* TestMemoryStateManager_Concurrent: the table's state is created, then   *)
(* every worker calls UpdateState(table, 1), ..., UpdateState(table,       *)
(* MaxUpdates), the calls of the workers interleaved in any way.           *)
(***************************************************************************)
\* manager.CreateState(state), before the goroutines start
Updaters_CreateState ==
    /\ StoreKey \notin DOMAIN lstates
    /\ Store_CreateState(0, StoreKey)

\* manager.UpdateState(table, int64(j+1)) of goroutine w
Updater_UpdateState(w) ==
    /\ StoreKey \in DOMAIN lstates
    /\ snext[w] <= MaxUpdates
    /\ LET u == Manager_UpdateState(lmgr, lstates, llocks, StoreKey, snext[w], now)
       IN /\ lstates' = u.states
          /\ scall' = Call("UpdateState", w, StoreKey, snext[w], u.err, FALSE, <<>>)
    /\ snext' = [snext EXCEPT ![w] = @ + 1]
    /\ UNCHANGED <<now, llocks>>
    /\ UNCHANGED notStore

(***************************************************************************)
(* The file backend (file.go).  A FileStateManager keeps nothing but the   *)
(* directory name: the state of table t is the file "t.state", the lease   *)
(* of job j the file "j.lock".  Processes share the directory; m.mu is     *)
(* private to a process.                                                   *)
(***************************************************************************)
notFile == <<fatal, lockVars, keysetVars, adapterVars, extractorVars, storeVars,
             kubeVars, bcall, wq>>

NoArg == [op |-> "none", v |-> <<>>]
NoRead == [found |-> FALSE, state |-> <<>>]
NoReturn == [op |-> "none", ok |-> FALSE, err |-> "", got |-> <<>>]
Return(op, ok, err, got) == [op |-> op, ok |-> ok, err |-> err, got |-> got]

\* filepath.Join(m.baseDir, fmt.Sprintf("%s.state", table))
StateFile(table) == <<table, "state">>
\* filepath.Join(m.baseDir, fmt.Sprintf("%s.lock", jobID))
LockFile(jobID) == <<jobID, "lock">>

\* os.WriteFile is OpenFile(name, O_WRONLY|O_CREATE|O_TRUNC, perm), Write, Close:
\* after the open the file exists and is empty
WriteFile_Open(dir, name) == MapSet(dir, name, <<>>)
\* the Write: the file holds the data
WriteFile_Write(dir, name, data) == MapSet(dir, name, <<data>>)
\* os.Remove
Remove(dir, name) == MapDelete(dir, name)

\* json.Unmarshal of a file's bytes: fails on an empty file
Unmarshals(bytes) == bytes # <<>>

\* GetState: nil for a missing file, an error for a file that does not parse
File_GetState(dir, table) ==
    IF StateFile(table) \notin DOMAIN dir THEN [err |-> "", got |-> <<>>]
    ELSE IF ~Unmarshals(dir[StateFile(table)])
         THEN [err |-> "failed to unmarshal state", got |-> <<>>]
         ELSE [err |-> "", got |-> dir[StateFile(table)]]

\* a process calls GetState(table)
FileStateManager_GetState(p) ==
    /\ fpc[p] = "idle"
    /\ LET g == File_GetState(fdir, StoreKey)
       IN fret' = [fret EXCEPT ![p] = Return("GetState", FALSE, g.err, g.got)]
    /\ UNCHANGED <<now, fdir, fpc, farg>>
    /\ UNCHANGED notFile

\* saveState(state): json.Marshal, the file name.  saveState is the write
\* path of CreateState and UpdateState (file.go 65, 80); SpecSaveState takes
\* it on its own, called with a state whose LastUpdated is time.Now().
FileStateManager_saveState(p, n) ==
    /\ fpc[p] = "idle"
    /\ fpc' = [fpc EXCEPT ![p] = "save-open"]
    /\ farg' = [farg EXCEPT ![p] =
                  [op |-> "saveState",
                   v |-> <<[NewState(<<>>, StoreKey, 0, now) EXCEPT !.ProcessedRows = n]>>]]
    /\ fret' = [fret EXCEPT ![p] = NoReturn]
    /\ UNCHANGED <<now, fdir>>
    /\ UNCHANGED notFile

\* saveState, os.WriteFile(stateFile, data, 0644): the open truncates the file
FileStateManager_saveState_Open(p) ==
    /\ fpc[p] = "save-open"
    /\ fdir' = WriteFile_Open(fdir, StateFile(StoreKey))
    /\ fpc' = [fpc EXCEPT ![p] = "save-write"]
    /\ UNCHANGED <<now, farg, fret>>
    /\ UNCHANGED notFile

\* saveState, os.WriteFile: the data is written, saveState returns nil
FileStateManager_saveState_Write(p) ==
    /\ fpc[p] = "save-write"
    /\ fdir' = WriteFile_Write(fdir, StateFile(StoreKey), farg[p].v[1])
    /\ fpc' = [fpc EXCEPT ![p] = "idle"]
    /\ farg' = [farg EXCEPT ![p] = NoArg]
    /\ fret' = [fret EXCEPT ![p] = Return("saveState", TRUE, "", <<>>)]
    /\ UNCHANGED now
    /\ UNCHANGED notFile

\* the process dies inside a call and is started again
File_Crash(p) ==
    /\ fpc[p] # "idle"
    /\ fpc' = [fpc EXCEPT ![p] = "idle"]
    /\ farg' = [farg EXCEPT ![p] = NoArg]
    /\ fret' = [fret EXCEPT ![p] = Return("crash", FALSE, "", <<>>)]
    /\ UNCHANGED <<now, fdir>>
    /\ UNCHANGED notFile

\* LockState(jobID, duration), os.Stat(lockFile)
FileStateManager_LockState_Stat(p, duration) ==
    /\ fpc[p] = "idle"
    /\ fpc' = [fpc EXCEPT ![p] = IF LockFile(StoreKey) \in DOMAIN fdir
                                 THEN "lock-read" ELSE "lock-open"]
    /\ farg' = [farg EXCEPT ![p] = [op |-> "LockState", v |-> <<duration>>]]
    /\ fret' = [fret EXCEPT ![p] = NoReturn]
    /\ UNCHANGED <<now, fdir>>
    /\ UNCHANGED notFile

\* LockState, the lock file exists: os.ReadFile, json.Unmarshal,
\* lockTime.After(time.Now())
FileStateManager_LockState_Read(p) ==
    /\ fpc[p] = "lock-read"
    /\ LET name == LockFile(StoreKey)
           fails(msg) == /\ fret' = [fret EXCEPT ![p] = Return("LockState", FALSE, msg, <<>>)]
                         /\ fpc' = [fpc EXCEPT ![p] = "idle"]
                         /\ farg' = [farg EXCEPT ![p] = NoArg]
       IN IF name \notin DOMAIN fdir THEN fails("failed to read lock file")
          ELSE IF ~Unmarshals(fdir[name]) THEN fails("failed to unmarshal lock time")
          ELSE IF fdir[name][1] > now THEN fails("")
          ELSE /\ fpc' = [fpc EXCEPT ![p] = "lock-open"]
               /\ UNCHANGED <<farg, fret>>
    /\ UNCHANGED <<now, fdir>>
    /\ UNCHANGED notFile

\* LockState: lockTime := time.Now().Add(duration), and os.WriteFile opens
\* (creates or truncates) the lock file
FileStateManager_LockState_Open(p) ==
    /\ fpc[p] = "lock-open"
    /\ farg' = [farg EXCEPT ![p] = [op |-> "LockState", v |-> <<now + farg[p].v[1]>>]]
    /\ fdir' = WriteFile_Open(fdir, LockFile(StoreKey))
    /\ fpc' = [fpc EXCEPT ![p] = "lock-write"]
    /\ UNCHANGED <<now, fret>>
    /\ UNCHANGED notFile

\* LockState: os.WriteFile writes lockTime, LockState returns true
FileStateManager_LockState_Write(p) ==
    /\ fpc[p] = "lock-write"
    /\ fdir' = WriteFile_Write(fdir, LockFile(StoreKey), farg[p].v[1])
    /\ fpc' = [fpc EXCEPT ![p] = "idle"]
    /\ farg' = [farg EXCEPT ![p] = NoArg]
    /\ fret' = [fret EXCEPT ![p] = Return("LockState", TRUE, "", farg[p].v)]
    /\ UNCHANGED now
    /\ UNCHANGED notFile

\* UnlockState(jobID): os.Stat, os.Remove; the lease of whoever held it is gone
FileStateManager_UnlockState(p) ==
    /\ fpc[p] = "idle"
    /\ IF LockFile(StoreKey) \notin DOMAIN fdir
       THEN /\ fret' = [fret EXCEPT ![p] = Return("UnlockState", FALSE, "no lock found for job ID", <<>>)]
            /\ UNCHANGED fdir
       ELSE /\ fdir' = Remove(fdir, LockFile(StoreKey))
            /\ fret' = [q \in Workers |->
                          IF q = p THEN Return("UnlockState", TRUE, "", <<>>)
                          ELSE IF fret[q].op = "LockState" THEN NoReturn ELSE fret[q]]
    /\ UNCHANGED <<now, fpc, farg>>
    /\ UNCHANGED notFile

(***************************************************************************)
(* The cluster backend (kubernetes.go): the state of table t is the        *)
(* ConfigMap "sqlextract-state-t", the lease of job j the ConfigMap        *)
(* "sqlextract-lock-j".  Every ConfigMap the manager sends is built from   *)
(* its name and content only: it carries no resourceVersion, so the API    *)
(* server applies an Update to whatever is stored.                         *)
(***************************************************************************)
notKube == <<fatal, lockVars, keysetVars, adapterVars, extractorVars, storeVars,
             fileVars, bcall, wq>>

\* fmt.Sprintf("sqlextract-state-%s", table)
StateName(table) == <<"sqlextract-state", table>>
\* fmt.Sprintf("sqlextract-lock-%s", jobID)
LockName(jobID) == <<"sqlextract-lock", jobID>>

\* ConfigMaps(namespace).Create: fails when the name exists
ConfigMaps_Create(cms, name, content) ==
    IF name \in DOMAIN cms THEN [err |-> "AlreadyExists", cms |-> cms]
    ELSE [err |-> "", cms |-> MapSet(cms, name, content)]

\* ConfigMaps(namespace).Update of an object without resourceVersion:
\* fails when the name does not exist, else replaces the stored object
ConfigMaps_Update(cms, name, content) ==
    IF name \notin DOMAIN cms THEN [err |-> "NotFound", cms |-> cms]
    ELSE [err |-> "", cms |-> MapSet(cms, name, content)]

\* ConfigMaps(namespace).Delete: fails when the name does not exist
ConfigMaps_Delete(cms, name) ==
    IF name \notin DOMAIN cms THEN [err |-> "NotFound", cms |-> cms]
    ELSE [err |-> "", cms |-> MapDelete(cms, name)]

\* GetState: nil when the Get fails, else the state of cm.Data["state"]
Kube_GetState(cms, table) ==
    IF StateName(table) \in DOMAIN cms
    THEN [found |-> TRUE, state |-> cms[StateName(table)]]
    ELSE NoRead

\* the State UpdateState sends: the one read (or a new "running" one) with
\* ProcessedRows and LastUpdated set
Kube_Updated(read, table, processedRows, t) ==
    [(IF read.found THEN read.state ELSE NewState(<<>>, table, 0, t))
        EXCEPT !.ProcessedRows = processedRows, !.LastUpdated = t]

\* UpdateState(table, n): k.GetState(table), and the State to send
KubernetesManager_UpdateState_Get(w, n) ==
    /\ qpc[w] = "idle"
    /\ qread' = [qread EXCEPT ![w] = Kube_GetState(qcm, StoreKey)]
    /\ qarg' = [qarg EXCEPT ![w] =
                  [op |-> "UpdateState",
                   v |-> <<Kube_Updated(Kube_GetState(qcm, StoreKey), StoreKey, n, now)>>]]
    /\ qpc' = [qpc EXCEPT ![w] = "update"]
    /\ qret' = [qret EXCEPT ![w] = NoReturn]
    /\ UNCHANGED <<now, qcm>>
    /\ UNCHANGED notKube

\* UpdateState: ConfigMaps.Update(ctx, cm, ...); nil when it succeeds
KubernetesManager_UpdateState_Update(w) ==
    /\ qpc[w] = "update"
    /\ LET u == ConfigMaps_Update(qcm, StateName(StoreKey), qarg[w].v[1])
       IN /\ qcm' = u.cms
          /\ IF u.err = ""
             THEN /\ qpc' = [qpc EXCEPT ![w] = "idle"]
                  /\ qret' = [qret EXCEPT ![w] = Return("UpdateState", TRUE, "", <<>>)]
                  /\ qarg' = [qarg EXCEPT ![w] = NoArg]
             ELSE /\ qpc' = [qpc EXCEPT ![w] = "create"]
                  /\ UNCHANGED <<qarg, qret>>
    /\ UNCHANGED <<now, qread>>
    /\ UNCHANGED notKube

\* UpdateState, the Update failed: ConfigMaps.Create(ctx, cm, ...)
KubernetesManager_UpdateState_Create(w) ==
    /\ qpc[w] = "create"
    /\ LET c == ConfigMaps_Create(qcm, StateName(StoreKey), qarg[w].v[1])
       IN /\ qcm' = c.cms
          /\ qret' = [qret EXCEPT ![w] =
                        IF c.err = "" THEN Return("UpdateState", TRUE, "", <<>>)
                        ELSE Return("UpdateState", FALSE, "failed to create ConfigMap", <<>>)]
    /\ qpc' = [qpc EXCEPT ![w] = "idle"]
    /\ qarg' = [qarg EXCEPT ![w] = NoArg]
    /\ UNCHANGED <<now, qread>>
    /\ UNCHANGED notKube

\* CreateState(state): one ConfigMaps.Create
KubernetesManager_CreateState(w, status) ==
    /\ qpc[w] = "idle"
    /\ LET st == [NewState(<<>>, StoreKey, 0, now) EXCEPT !.Status = status]
           c == ConfigMaps_Create(qcm, StateName(StoreKey), st)
       IN /\ qcm' = c.cms
          /\ qret' = [qret EXCEPT ![w] =
                        IF c.err = "" THEN Return("CreateState", TRUE, "", <<>>)
                        ELSE Return("CreateState", FALSE, "failed to create ConfigMap", <<>>)]
    /\ UNCHANGED <<now, qpc, qarg, qread>>
    /\ UNCHANGED notKube

\* DeleteState(jobID): one ConfigMaps.Delete of "sqlextract-state-<jobID>"
KubernetesManager_DeleteState(w) ==
    /\ qpc[w] = "idle"
    /\ LET d == ConfigMaps_Delete(qcm, StateName(StoreKey))
       IN /\ qcm' = d.cms
          /\ qret' = [qret EXCEPT ![w] =
                        IF d.err = "" THEN Return("DeleteState", TRUE, "", <<>>)
                        ELSE Return("DeleteState", FALSE, "failed to delete ConfigMap", <<>>)]
    /\ UNCHANGED <<now, qpc, qarg, qread>>
    /\ UNCHANGED notKube

(***************************************************************************)
(* SpecBackends: one worker makes the same sequence of Manager calls on a  *)
(* memory manager (lmgr), a FileStateManager and a KubernetesManager, each *)
(* with a store of its own; bcall records what the three returned.         *)
(***************************************************************************)
\* what a call returned: nil ("ok") or an error, LockState's bool, GetState's
\* State; "blocks" when the call never returns
Outcome(err, ok, got) == [res |-> IF err = "" THEN "ok" ELSE "error", ok |-> ok, got |-> got]
Blocks == [res |-> "blocks", ok |-> FALSE, got |-> <<>>]

\* UpdateState, CreateState and DeleteState hold m.mu.Lock() and call
\* GetState or ListStates, which wait for m.mu.RLock(): the call never returns
FileStateManager_SelfLocks(op) == op \in {"UpdateState", "CreateState", "DeleteState"}

\* LockState of the file backend, when no other process runs between its steps
File_LockState(dir, jobID, duration, t) ==
    LET name == LockFile(jobID) IN
    IF name \in DOMAIN dir /\ ~Unmarshals(dir[name])
    THEN [ok |-> FALSE, err |-> "failed to unmarshal lock time", dir |-> dir]
    ELSE IF name \in DOMAIN dir /\ dir[name][1] > t
    THEN [ok |-> FALSE, err |-> "", dir |-> dir]
    ELSE [ok |-> TRUE, err |-> "", dir |-> WriteFile_Write(dir, name, t + duration)]

\* UnlockState of the file backend
File_UnlockState(dir, jobID) ==
    IF LockFile(jobID) \notin DOMAIN dir
    THEN [err |-> "no lock found for job ID", dir |-> dir]
    ELSE [err |-> "", dir |-> Remove(dir, LockFile(jobID))]

\* UpdateState of the cluster backend, when no other worker runs between its calls
Kube_UpdateState(cms, table, processedRows, t) ==
    LET st == Kube_Updated(Kube_GetState(cms, table), table, processedRows, t)
        u == ConfigMaps_Update(cms, StateName(table), st)
    IN IF u.err = "" THEN u ELSE ConfigMaps_Create(cms, StateName(table), st)

\* LockState of the cluster backend: one Create of the lock ConfigMap with
\* the annotation "expires"; any error is "Lock already exists"
Kube_LockState(cms, jobID, duration, t) ==
    LET c == ConfigMaps_Create(cms, LockName(jobID), [expires |-> t + duration, locked_at |-> t])
    IN [ok |-> c.err = "", err |-> "", cms |-> c.cms]

\* a set as the list that ranging over a Go map, a directory or an API list
\* gives: the elements in some order
ListOf(S) ==
    IF S = {} THEN <<>>
    ELSE CHOOSE q \in [1..Cardinality(S) -> S] : {q[i] : i \in 1..Cardinality(S)} = S

\* ListStates of the in-memory managers: every value of m.states
Memory_ListStates(states) == ListOf({states[k] : k \in DOMAIN states})

\* ListStates of the file backend: every file of the directory with the
\* extension .state that can be read and parsed
File_ListStates(dir) ==
    ListOf({dir[name][1] : name \in {x \in DOMAIN dir : x[2] = "state" /\ Unmarshals(dir[x])}})

\* the labels of the ConfigMaps CreateState, UpdateState and LockState make:
\* their ObjectMeta sets Name (and, for a lock, Annotations) only
ConfigMap_Labels == {}

\* ListOptions{LabelSelector: "app=sqlextract"}
ListSelector == {<<"app", "sqlextract">>}

\* ConfigMaps(namespace).List: the objects that carry every label of the selector
ConfigMaps_List(cms, selector) == {name \in DOMAIN cms : selector \subseteq ConfigMap_Labels}

\* ListStates of the cluster backend: the listed ConfigMaps whose
\* Data["state"] parses as a State
Kube_ListStates(cms) ==
    ListOf({cms[name] : name \in {x \in ConfigMaps_List(cms, ListSelector) :
                                    x[1] = "sqlextract-state"}})

\* the file backend's part of a call: the worker is stuck once a call blocked
Backends_File(op, outcome) ==
    IF fpc[1] = "blocked" \/ FileStateManager_SelfLocks(op) THEN Blocks ELSE outcome

Backends_Call(op, n, mem, file, kube) ==
    /\ bcall' = [op |-> op, n |-> n, mem |-> mem, file |-> Backends_File(op, file), kube |-> kube]
    /\ fpc' = [fpc EXCEPT ![1] = IF FileStateManager_SelfLocks(op) THEN "blocked" ELSE @]
    /\ UNCHANGED <<now, fatal, lmgr, lockCallVars, keysetVars, adapterVars, extractorVars,
                   storeVars, farg, fret, qpc, qarg, qread, qret, wq>>

Backends_GetState ==
    /\ LET m == Manager_GetState(lmgr, lstates, StoreKey)
           f == File_GetState(fdir, StoreKey)
           k == Kube_GetState(qcm, StoreKey)
       IN Backends_Call("GetState", 0,
                        Outcome(m.err, FALSE, IF m.found THEN <<lstates[StoreKey]>> ELSE <<>>),
                        Outcome(f.err, FALSE, f.got),
                        Outcome("", FALSE, IF k.found THEN <<k.state>> ELSE <<>>))
    /\ UNCHANGED <<lstates, llocks, fdir, qcm>>

Backends_CreateState ==
    /\ LET st == NewState(<<>>, StoreKey, 0, now)
           m == Manager_CreateState(lmgr, lstates, st)
           k == ConfigMaps_Create(qcm, StateName(StoreKey), st)
       IN /\ lstates' = m.states
          /\ qcm' = k.cms
          /\ Backends_Call("CreateState", 0, Outcome(m.err, FALSE, <<>>), Blocks,
                           Outcome(k.err, FALSE, <<>>))
    /\ UNCHANGED <<llocks, fdir>>

Backends_UpdateState(n) ==
    /\ LET m == Manager_UpdateState(lmgr, lstates, llocks, StoreKey, n, now)
           k == Kube_UpdateState(qcm, StoreKey, n, now)
       IN /\ lstates' = m.states
          /\ qcm' = k.cms
          /\ Backends_Call("UpdateState", n, Outcome(m.err, FALSE, <<>>), Blocks,
                           Outcome(k.err, FALSE, <<>>))
    /\ UNCHANGED <<llocks, fdir>>

Backends_DeleteState ==
    /\ LET m == Manager_DeleteState(lmgr, lstates, llocks, StoreKey)
           k == ConfigMaps_Delete(qcm, StateName(StoreKey))
       IN /\ lstates' = m.states
          /\ llocks' = m.locks
          /\ qcm' = k.cms
          /\ Backends_Call("DeleteState", 0, Outcome(m.err, FALSE, <<>>), Blocks,
                           Outcome(k.err, FALSE, <<>>))
    /\ UNCHANGED fdir

Backends_LockState(duration) ==
    /\ LET m == Manager_LockState(lmgr, lstates, llocks, StoreKey, duration, now)
           f == File_LockState(fdir, StoreKey, duration, now)
           k == Kube_LockState(qcm, StoreKey, duration, now)
       IN /\ llocks' = m.locks
          /\ fdir' = IF fpc[1] = "blocked" THEN fdir ELSE f.dir
          /\ qcm' = k.cms
          /\ Backends_Call("LockState", duration, Outcome(m.err, m.ok, <<>>),
                           Outcome(f.err, f.ok, <<>>), Outcome(k.err, k.ok, <<>>))
    /\ UNCHANGED lstates

Backends_UnlockState ==
    /\ LET m == Manager_UnlockState(lmgr, llocks, StoreKey)
           f == File_UnlockState(fdir, StoreKey)
           k == ConfigMaps_Delete(qcm, LockName(StoreKey))
       IN /\ llocks' = m.locks
          /\ fdir' = IF fpc[1] = "blocked" THEN fdir ELSE f.dir
          /\ qcm' = k.cms
          /\ Backends_Call("UnlockState", 0, Outcome(m.err, FALSE, <<>>),
                           Outcome(f.err, FALSE, <<>>), Outcome(k.err, FALSE, <<>>))
    /\ UNCHANGED lstates

Backends_ListStates ==
    /\ Backends_Call("ListStates", 0,
                     Outcome("", FALSE, Memory_ListStates(lstates)),
                     Outcome("", FALSE, File_ListStates(fdir)),
                     Outcome("", FALSE, Kube_ListStates(qcm)))
    /\ UNCHANGED <<lstates, llocks, fdir, qcm>>

(***************************************************************************)
(* SpecWhere: the WHERE clause the keyset ExtractData of duckdb.go,        *)
(* mssql.go and bigquery.go builds from state.LastValues, the arguments it *)
(* passes with the query, and what the database makes of the two for a     *)
(* row.  A row is the tuple of its selected columns; the key is a sequence *)
(* of column positions; state.LastValues is the last row of the page       *)
(* before ("lastValues = values").                                         *)
(***************************************************************************)
\* the columns of the table
MaxKeyCols == 2

KeysetAdapters == {"duckdb", "mssql", "bigquery"}

NoQuery == [adapter |-> "none", key |-> <<>>, last |-> <<>>, where |-> <<>>,
            args |-> <<>>, row |-> <<>>, res |-> "none"]

notWhere == <<now, fatal, lockVars, keysetVars, adapterVars, extractorVars, storeVars,
              fileVars, kubeVars, bcall>>

\* the rows of a table of the given width
TableRows(width) == [1..width -> TableKeys]

\* the key columns: DuckDB and BigQuery take every selected column, in the
\* order selected; MSSQL takes the primary key columns, in the order
\* getPrimaryKeyColumns returns, wherever they stand among the selected ones
KeyColumns(adapter, width) ==
    IF adapter = "mssql"
    THEN {k \in UNION {[1..n -> 1..width] : n \in 1..width} :
            \A i, j \in 1..Len(k) : i # j => k[i] # k[j]}
    ELSE {[i \in 1..width |-> i]}

\* "%s = ? AND ", "%s > ?" (duckdb.go 118-122), "%s = @p%d AND ", "%s > @p%d"
\* with j+1 and i+1 (mssql.go 175-179, bigquery.go 490-494); ph is the
\* number after "@p", 0 for "?"
WhereTerm(adapter, key, i, j) ==
    [col |-> key[j], op |-> IF j < i THEN "=" ELSE ">",
     ph |-> IF adapter = "duckdb" THEN 0 ELSE j]

\* the clause as a list of disjuncts, each a list of terms; no clause when
\* state.LastValues is nil
WhereClause(adapter, key, last) ==
    IF last = <<>> THEN <<>>
    ELSE [i \in 1..Len(key) |-> [j \in 1..i |-> WhereTerm(adapter, key, i, j)]]

\* args = append(args, state.LastValues[i]), once per key column
WhereArgs(key, last) ==
    IF last = <<>> THEN <<>> ELSE [i \in 1..Len(key) |-> last[i]]

\* the place of the j-th placeholder of the i-th disjunct in the query text
Ordinal(i, j) == ((i - 1) * i) \div 2 + j

\* the argument a placeholder takes: a "?" the one at its place in the text
\* (database/sql), "@pN" the N-th (the driver names the arguments p1, p2,
\* ...; bigquery.go 526-532 names them so itself)
ArgIndex(term, i, j) == IF term.ph = 0 THEN Ordinal(i, j) ELSE term.ph

\* the parameters the statement declares
Parameters(where) ==
    UNION {{ArgIndex(where[i][j], i, j) : j \in 1..i} : i \in 1..Len(where)}

Holds(term, value, row) ==
    IF term.op = "=" THEN row[term.col] = value ELSE row[term.col] > value

\* the database's verdict on a row: the query is refused when the arguments
\* passed are not the parameters declared; a query without WHERE takes
\* every row
Evaluate(where, args, row) ==
    IF Parameters(where) # 1..Len(args) THEN "error"
    ELSE IF \/ where = <<>>
            \/ \E i \in 1..Len(where) : \A j \in 1..i :
                 Holds(where[i][j], args[ArgIndex(where[i][j], i, j)], row)
    THEN "true" ELSE "false"

\* ExtractData builds the query of its next page, over a table of the
\* given width
Keyset_BuildWhere(adapter, width, key, last) ==
    /\ last \in {<<>>} \cup TableRows(width)
    /\ wq' = [adapter |-> adapter, key |-> key, last |-> last,
              where |-> WhereClause(adapter, key, last), args |-> WhereArgs(key, last),
              row |-> <<>>, res |-> "none"]
    /\ UNCHANGED notWhere

\* the database tests a row of the table against the query
Database_Evaluate(row) ==
    /\ wq.adapter # "none"
    /\ \A j \in 1..Len(wq.key) : wq.key[j] \in DOMAIN row
    /\ wq.last # <<>> => Len(row) = Len(wq.last)
    /\ wq' = [wq EXCEPT !.row = row, !.res = Evaluate(wq.where, wq.args, row)]
    /\ UNCHANGED notWhere

(***************************************************************************)
(* Initial states and specifications                                       *)
(***************************************************************************)
InitLockVars ==
    /\ lstates = EmptyMap
    /\ llocks = EmptyMap
    /\ lpc = [w \in Workers |-> "idle"]
    /\ lkey = [w \in Workers |-> "t1"]
    /\ ldur = [w \in Workers |-> 1]
    /\ lret = [w \in Workers |-> "none"]
    /\ lgrant = [w \in Workers |-> NoGrant]

InitKeysetVars ==
    /\ kstates = EmptyMap
    /\ kheap = EmptyMap
    /\ klocks = EmptyMap
    /\ kpc = [w \in Workers |-> "idle"]
    /\ kjob = [w \in Workers |-> <<>>]
    /\ kptr = [w \in Workers |-> 0]
    /\ kpage = [w \in Workers |-> <<>>]
    /\ kres = [w \in Workers |-> "none"]

InitAdapterLocals ==
    /\ afile = NoFile
    /\ apc = "idle"
    /\ acur = "nil"
    /\ atotal = 0
    /\ aoffset = 0
    /\ aprocessed = 0
    /\ arows = <<>>
    /\ ares = "none"
    /\ aruns = 0
    /\ asignal = FALSE

InitExtractorLocals ==
    /\ efile = <<>>
    /\ eckfile = <<>>
    /\ ebuf = <<>>
    /\ epc = "new"
    /\ elastID = 0
    /\ echeckpoint = <<>>
    /\ eloaded = FALSE
    /\ eoffset = 0
    /\ etotal = 0
    /\ epage = <<>>
    /\ ecancel = FALSE
    /\ eres = "none"
    /\ eprev = "none"
    /\ eruns = 0
    /\ ecall = "none"

InitFileVars ==
    /\ fpc = [p \in Workers |-> "idle"]
    /\ farg = [p \in Workers |-> NoArg]
    /\ fret = [p \in Workers |-> NoReturn]

InitKubeVars ==
    /\ qpc = [w \in Workers |-> "idle"]
    /\ qarg = [w \in Workers |-> NoArg]
    /\ qread = [w \in Workers |-> NoRead]
    /\ qret = [w \in Workers |-> NoReturn]

IdleBackendVars ==
    /\ fdir = EmptyMap
    /\ InitFileVars
    /\ qcm = EmptyMap
    /\ InitKubeVars
    /\ bcall = NoCall
    /\ wq = NoQuery

InitStoreVars ==
    /\ scall = NoCall
    /\ snext = [w \in Workers |-> 1]

IdleStoreVars ==
    /\ InitStoreVars
    /\ IdleBackendVars

IdleExtractorVars ==
    /\ esize = 0
    /\ ebatch = 1
    /\ eformat = "csv"
    /\ InitExtractorLocals

IdleAdapterVars ==
    /\ aadapter = "duckdb"
    /\ asize = 0
    /\ aformat = "csv"
    /\ abatch = 1
    /\ akeys = ""
    /\ awhere = 0
    /\ InitAdapterLocals

InitLock ==
    /\ now = 0
    /\ fatal = FALSE
    /\ lmgr \in Managers
    /\ InitLockVars
    /\ InitKeysetVars
    /\ IdleAdapterVars
    /\ IdleExtractorVars
    /\ IdleStoreVars

NextLock ==
    \/ Tick
    \/ \E k \in Keys : MemoryManager_CreateState(k)
    \/ \E w \in Workers, k \in Keys, d \in Durations : MemoryManager_LockState(w, k, d)
    \/ \E w \in Workers, k \in Keys : MemoryManager_UnlockState(w, k)
    \/ \E w \in Workers, k \in Keys, d \in Durations : MemoryStateManager_LockState(w, k, d)
    \/ \E w \in Workers, k \in Keys : MemoryStateManager_UnlockState(w, k)
    \/ \E w \in Workers, k \in Keys, d \in Durations : CtxMemoryManager_LockState_Check(w, k, d)
    \/ \E w \in Workers : CtxMemoryManager_LockState_Set(w)
    \/ \E w \in Workers, k \in Keys : CtxMemoryManager_UnlockState(w, k)
    \/ CtxMemoryManager_ConcurrentMapWrites

InitKeyset ==
    /\ now = 0
    /\ fatal = FALSE
    /\ lmgr = "CtxMemoryManager"
    /\ InitLockVars
    /\ InitKeysetVars
    /\ IdleAdapterVars
    /\ IdleExtractorVars
    /\ IdleStoreVars

NextKeyset ==
    \/ Tick
    \/ Tick_LockTTL
    \/ \E w \in Workers : MSSQL_GetState(w)
    \/ \E w \in Workers : MSSQL_CreateState_Check(w)
    \/ \E w \in Workers : MSSQL_CreateState_Insert(w)
    \/ \E w \in Workers : MSSQL_LockState_Check(w)
    \/ \E w \in Workers : MSSQL_LockState_Set(w)
    \/ \E w \in Workers : MSSQL_PrimaryKeyFails(w)
    \/ \E w \in Workers : MSSQL_Query(w)
    \/ \E w \in Workers : MSSQL_QueryFails(w)
    \/ \E w \in Workers : MSSQL_ScanFails(w)
    \/ \E w \in Workers : MSSQL_RowsErr(w)
    \/ \E w \in Workers : MSSQL_UpdateState(w)
    \/ \E w \in Workers : MSSQL_Return(w)
    \/ MSSQL_ConcurrentMapWrites

\* the arguments of ExtractData and the source table; Postgres and BigQuery
\* take neither keyColumns nor whereClause
InitAdapter ==
    /\ now = 0
    /\ fatal = FALSE
    /\ lmgr \in {"MemoryManager", "MemoryStateManager"}
    /\ InitLockVars
    /\ InitKeysetVars
    /\ aadapter \in Adapters
    /\ asize \in 0..NRows
    /\ aformat \in Formats
    /\ abatch \in 1..MaxBatch
    /\ akeys \in (IF aadapter \in BatchAdapters THEN {"", "id"} ELSE {""})
    /\ awhere \in (IF aadapter \in BatchAdapters THEN {0, 1} ELSE {0})
    /\ InitAdapterLocals
    /\ IdleExtractorVars
    /\ IdleStoreVars

NextAdapter ==
    \/ Tick
    \/ \E status \in StatusValues : Caller_CreateState(status)
    \/ Adapter_GetState
    \/ Adapter_PrepareFails
    \/ BigQuery_FirstRowFails
    \/ Batch_Open
    \/ Batch_Iteration
    \/ Batch_ExtractBatchFails
    \/ Batch_WriteFails
    \/ Batch_Done
    \/ Postgres_Open
    \/ BigQuery_Open
    \/ Stream_Row
    \/ Postgres_RowFails
    \/ BigQuery_NextFails
    \/ Stream_WriteFails
    \/ Postgres_RowsEnd
    \/ Stream_FinalUpdate
    \/ Main_Signal
    \/ Adapter_Again

InitExtractor ==
    /\ now = 0
    /\ fatal = FALSE
    /\ lmgr = "MemoryManager"
    /\ InitLockVars
    /\ InitKeysetVars
    /\ IdleAdapterVars
    /\ esize \in 0..NRows
    /\ ebatch \in 1..MaxBatch
    /\ eformat \in ExtractorFormats
    /\ InitExtractorLocals
    /\ IdleStoreVars

NextExtractor ==
    \/ LoadCheckpoint
    \/ SaveCheckpoint
    \/ Other_SaveCheckpoint
    \/ Extract_Begin
    \/ Extract_PrepareFails
    \/ Ctx_Cancel
    \/ Extract_Batch
    \/ Extract_BatchFails
    \/ Extract_Canceled
    \/ Extract_WriteRow
    \/ Extract_WriteFails
    \/ Csv_BufferFull
    \/ Extract_BatchEnd
    \/ Extract_Done
    \/ Process_Crash
    \/ Process_Exit

InitStore ==
    /\ now = 0
    /\ fatal = FALSE
    /\ lmgr \in StoreManagers
    /\ InitLockVars
    /\ InitKeysetVars
    /\ IdleAdapterVars
    /\ IdleExtractorVars
    /\ IdleStoreVars

NextStore ==
    \/ Store_Tick
    \/ Store_GetState(1, StoreKey)
    \/ Store_CreateState(1, StoreKey)
    \/ \E n \in 0..NRows : Store_UpdateState(1, StoreKey, n)
    \/ Store_DeleteState(1, StoreKey)
    \/ \E d \in Durations : Store_LockState(1, StoreKey, d)
    \/ Store_UnlockState(1, StoreKey)

NextUpdaters ==
    \/ Store_Tick
    \/ Updaters_CreateState
    \/ \E w \in Workers : Updater_UpdateState(w)

InitIdleParts ==
    /\ fatal = FALSE
    /\ lmgr = "MemoryManager"
    /\ InitLockVars
    /\ InitKeysetVars
    /\ IdleAdapterVars
    /\ IdleExtractorVars
    /\ InitStoreVars

InitSaveState ==
    /\ now = 0
    /\ InitIdleParts
    /\ fdir = EmptyMap
    /\ InitFileVars
    /\ qcm = EmptyMap
    /\ InitKubeVars
    /\ bcall = NoCall
    /\ wq = NoQuery

NextSaveState ==
    \/ Tick
    \/ \E p \in Workers : FileStateManager_GetState(p)
    \/ \E p \in Workers, n \in 0..NRows : FileStateManager_saveState(p, n)
    \/ \E p \in Workers : FileStateManager_saveState_Open(p)
    \/ \E p \in Workers : FileStateManager_saveState_Write(p)
    \/ \E p \in Workers : File_Crash(p)

NextFileLock ==
    \/ Tick
    \/ \E p \in Workers, d \in Durations : FileStateManager_LockState_Stat(p, d)
    \/ \E p \in Workers : FileStateManager_LockState_Read(p)
    \/ \E p \in Workers : FileStateManager_LockState_Open(p)
    \/ \E p \in Workers : FileStateManager_LockState_Write(p)
    \/ \E p \in Workers : FileStateManager_UnlockState(p)

NextKube ==
    \/ Tick
    \/ \E w \in Workers, n \in 1..MaxBatch : KubernetesManager_UpdateState_Get(w, n)
    \/ \E w \in Workers : KubernetesManager_UpdateState_Update(w)
    \/ \E w \in Workers : KubernetesManager_UpdateState_Create(w)
    \/ \E w \in Workers : KubernetesManager_CreateState(w, "pending")
    \/ \E w \in Workers : KubernetesManager_DeleteState(w)

(***************************************************************************)
(* SpecAlias: callers of the context-variant MemoryManager that keep the   *)
(* *State GetState gave them.  m.states maps a job to a pointer (kstates   *)
(* to an address of kheap); a caller's assignment to a field of its *State *)
(* is a step of its own, as in mssql.go 212-214.                           *)
(***************************************************************************)
\* the State objects the callers of the model allocate
MaxObjects == 2

AliasJob == JobID(KeysetDatabase, KeysetTable, 0)

\* memory_state_manager.go 161-166: GetState returns m.states[jobID], the
\* stored pointer itself, or nil
CtxMemoryManager_GetState(w) ==
    /\ kptr' = [kptr EXCEPT ![w] = IF AliasJob \in DOMAIN kstates THEN kstates[AliasJob] ELSE 0]
    /\ kres' = [kres EXCEPT ![w] = "GetState"]
    /\ UNCHANGED <<now, fatal, kstates, kheap, klocks, kpc, kjob, kpage>>
    /\ UNCHANGED notKeyset

\* the caller's &state.State{...} (mssql.go 127-133) and CreateState
\* (memory_state_manager.go 173-179), which stores the pointer it is given
CtxMemoryManager_CreateState(w) ==
    /\ Cardinality(DOMAIN kheap) < MaxObjects
    /\ LET a == Cardinality(DOMAIN kheap) + 1 IN
         /\ kheap' = MapSet(kheap, a, NewState(AliasJob, KeysetTable, 0, now))
         /\ kptr' = [kptr EXCEPT ![w] = a]
         /\ IF AliasJob \in DOMAIN kstates
              THEN /\ kres' = [kres EXCEPT ![w] = "error: state already exists"]
                   /\ UNCHANGED kstates
              ELSE /\ kres' = [kres EXCEPT ![w] = "CreateState"]
                   /\ kstates' = MapSet(kstates, AliasJob, a)
    /\ UNCHANGED <<now, fatal, klocks, kpc, kjob, kpage>>
    /\ UNCHANGED notKeyset

\* mssql.go 212-213: state.Status = ...; state.Error = ..., through the
\* pointer the caller holds
Caller_SetStatus(w, status) ==
    /\ kptr[w] # 0
    /\ kheap[kptr[w]].Status # status
    /\ kheap' = [kheap EXCEPT ![kptr[w]] =
                   [@ EXCEPT !.Status = status,
                             !.Error = IF status = StatusFailed THEN "error" ELSE ""]]
    /\ kres' = [kres EXCEPT ![w] = "assigned"]
    /\ UNCHANGED <<now, fatal, kstates, klocks, kpc, kjob, kptr, kpage>>
    /\ UNCHANGED notKeyset

\* memory_state_manager.go 168-171: m.states[state.JobID] = state
CtxMemoryManager_UpdateState(w) ==
    /\ kptr[w] # 0
    /\ kstates' = MapSet(kstates, kheap[kptr[w]].JobID, kptr[w])
    /\ kres' = [kres EXCEPT ![w] = "UpdateState"]
    /\ UNCHANGED <<now, fatal, kheap, klocks, kpc, kjob, kptr, kpage>>
    /\ UNCHANGED notKeyset

\* memory_state_manager.go 181-185: delete(m.states, jobID)
CtxMemoryManager_DeleteState(w) ==
    /\ AliasJob \in DOMAIN kstates
    /\ kstates' = MapDelete(kstates, AliasJob)
    /\ kres' = [kres EXCEPT ![w] = "DeleteState"]
    /\ UNCHANGED <<now, fatal, kheap, klocks, kpc, kjob, kptr, kpage>>
    /\ UNCHANGED notKeyset

InitBackends ==
    /\ now = 0
    /\ fatal = FALSE
    /\ lmgr \in StoreManagers
    /\ InitLockVars
    /\ InitKeysetVars
    /\ IdleAdapterVars
    /\ IdleExtractorVars
    /\ IdleStoreVars

NextBackends ==
    \/ Tick
    \/ Backends_GetState
    \/ Backends_CreateState
    \/ \E n \in 0..NRows : Backends_UpdateState(n)
    \/ Backends_DeleteState
    \/ \E d \in Durations : Backends_LockState(d)
    \/ Backends_UnlockState
    \/ Backends_ListStates

vars == <<now, fatal, lockVars, keysetVars, adapterVars, extractorVars, storeVars,
          backendVars>>

SpecLock == InitLock /\ [][NextLock]_vars

SpecKeyset == InitKeyset /\ [][NextKeyset]_vars

SpecAdapter == InitAdapter /\ [][NextAdapter]_vars

SpecExtractor == InitExtractor /\ [][NextExtractor]_vars

SpecStore == InitStore /\ [][NextStore]_vars

SpecUpdaters == InitStore /\ [][NextUpdaters]_vars

SpecSaveState == InitSaveState /\ [][NextSaveState]_vars

SpecFileLock == InitSaveState /\ [][NextFileLock]_vars

SpecKube == InitSaveState /\ [][NextKube]_vars

SpecBackends == InitBackends /\ [][NextBackends]_vars

(***************************************************************************)
(* SpecFileMutex: the goroutines of one process calling one                *)
(* FileStateManager.  Every method takes m.mu, a sync.RWMutex, first:      *)
(* GetState and ListStates with RLock, the others with Lock; UpdateState   *)
(* and CreateState then call m.GetState, and DeleteState m.ListStates,     *)
(* with the write lock held.  The mutex has no variable of its own: who    *)
(* holds it and who waits for it follows from where the goroutines are.    *)
(***************************************************************************)
ReadOps == {"GetState", "ListStates"}
WriteOps == {"UpdateState", "CreateState", "DeleteState", "LockState", "UnlockState"}

HoldsLock(p) == fpc[p] \in {"locked", "locked-RLock", "locked-rlocked"}
HoldsRLock(p) == fpc[p] \in {"rlocked", "locked-rlocked"}
WaitsForLock(p) == fpc[p] = "Lock"
WaitsForRLock(p) == fpc[p] \in {"RLock", "locked-RLock"}

\* sync.RWMutex: Lock returns when no goroutine holds the mutex for reading
\* or for writing; RLock returns when none holds it for writing and none
\* waits in Lock.  Neither looks at who is calling.
RWMutex_CanLock == \A q \in Workers : ~HoldsLock(q) /\ ~HoldsRLock(q)
RWMutex_CanRLock == \A q \in Workers : ~HoldsLock(q) /\ ~WaitsForLock(q)

\* a goroutine calls a method, which starts with m.mu.RLock() or m.mu.Lock()
FileStateManager_Call(p, op, n) ==
    /\ fpc[p] = "idle"
    /\ fpc' = [fpc EXCEPT ![p] = IF op \in ReadOps THEN "RLock" ELSE "Lock"]
    /\ farg' = [farg EXCEPT ![p] = [op |-> op, v |-> <<n>>]]
    /\ fret' = [fret EXCEPT ![p] = NoReturn]
    /\ UNCHANGED <<now, fdir>>
    /\ UNCHANGED notFile

\* m.mu.Lock() returns
RWMutex_Lock(p) ==
    /\ WaitsForLock(p)
    /\ RWMutex_CanLock
    /\ fpc' = [fpc EXCEPT ![p] = "locked"]
    /\ UNCHANGED <<now, fdir, farg, fret>>
    /\ UNCHANGED notFile

\* m.mu.RLock() returns, in GetState or ListStates called from outside or
\* from UpdateState, CreateState or DeleteState
RWMutex_RLock(p) ==
    /\ WaitsForRLock(p)
    /\ RWMutex_CanRLock
    /\ fpc' = [fpc EXCEPT ![p] = IF fpc[p] = "RLock" THEN "rlocked" ELSE "locked-rlocked"]
    /\ UNCHANGED <<now, fdir, farg, fret>>
    /\ UNCHANGED notFile

\* file.go 50, 72, 87: UpdateState and CreateState call m.GetState, and
\* DeleteState calls m.ListStates, under the write lock
FileStateManager_Nested(p) ==
    /\ fpc[p] = "locked"
    /\ FileStateManager_SelfLocks(farg[p].op)
    /\ fpc' = [fpc EXCEPT ![p] = "locked-RLock"]
    /\ UNCHANGED <<now, fdir, farg, fret>>
    /\ UNCHANGED notFile

\* what the body of a method does to the directory and returns, once it
\* holds every lock it takes
FileStateManager_Body(dir, op, n, t) ==
    LET g == File_GetState(dir, StoreKey)
        st == [NewState(<<>>, StoreKey, 0, t) EXCEPT !.ProcessedRows = n]
    IN CASE op = "GetState" -> [dir |-> dir, ret |-> Return(op, FALSE, g.err, g.got)]
         [] op = "ListStates" -> [dir |-> dir, ret |-> Return(op, FALSE, "", File_ListStates(dir))]
         [] op = "LockState" ->
              LET f == File_LockState(dir, StoreKey, n, t)
              IN [dir |-> f.dir, ret |-> Return(op, f.ok, f.err, <<>>)]
         [] op = "UnlockState" ->
              LET f == File_UnlockState(dir, StoreKey)
              IN [dir |-> f.dir, ret |-> Return(op, FALSE, f.err, <<>>)]
         [] op = "UpdateState" ->
              IF g.err # "" THEN [dir |-> dir, ret |-> Return(op, FALSE, g.err, <<>>)]
              ELSE [dir |-> WriteFile_Write(dir, StateFile(StoreKey), st),
                    ret |-> Return(op, FALSE, "", <<>>)]
         [] op = "CreateState" ->
              IF g.err # "" THEN [dir |-> dir, ret |-> Return(op, FALSE, g.err, <<>>)]
              ELSE IF g.got # <<>>
              THEN [dir |-> dir, ret |-> Return(op, FALSE, "state already exists for table", <<>>)]
              ELSE [dir |-> WriteFile_Write(dir, StateFile(StoreKey), st),
                    ret |-> Return(op, FALSE, "", <<>>)]
         [] OTHER ->
              IF File_ListStates(dir) = <<>>
              THEN [dir |-> dir, ret |-> Return(op, FALSE, "state not found for job ID", <<>>)]
              ELSE [dir |-> Remove(dir, StateFile(StoreKey)), ret |-> Return(op, FALSE, "", <<>>)]

\* the body of the method, and the deferred RUnlock or Unlock
FileStateManager_Return(p) ==
    /\ \/ fpc[p] = "rlocked"
       \/ fpc[p] = "locked-rlocked"
       \/ fpc[p] = "locked" /\ ~FileStateManager_SelfLocks(farg[p].op)
    /\ LET b == FileStateManager_Body(fdir, farg[p].op, farg[p].v[1], now)
       IN /\ fdir' = b.dir
          /\ fret' = [fret EXCEPT ![p] = b.ret]
    /\ fpc' = [fpc EXCEPT ![p] = "idle"]
    /\ UNCHANGED <<now, farg>>
    /\ UNCHANGED notFile

NextFileMutex ==
    \/ Tick
    \/ \E p \in Workers, op \in ReadOps \cup WriteOps, n \in Durations :
         FileStateManager_Call(p, op, n)
    \/ \E p \in Workers : RWMutex_Lock(p)
    \/ \E p \in Workers : RWMutex_RLock(p)
    \/ \E p \in Workers : FileStateManager_Nested(p)
    \/ \E p \in Workers : FileStateManager_Return(p)

SpecFileMutex == InitSaveState /\ [][NextFileMutex]_vars

\* main.go 44, 56-100: flag.Int("batch-size", 1000, ...); initFlags
\* validates the database type, the table, the output and the connection
\* flags and passes every value of batch-size on to ExtractData
BatchSizes == 0..MaxBatch

\* the command run with any batch size initFlags accepts, over an adapter
\* with a batch loop
InitBatchSize ==
    /\ now = 0
    /\ fatal = FALSE
    /\ lmgr \in {"MemoryManager", "MemoryStateManager"}
    /\ InitLockVars
    /\ InitKeysetVars
    /\ aadapter \in BatchAdapters
    /\ asize \in 0..NRows
    /\ aformat \in Formats
    /\ abatch \in BatchSizes
    /\ akeys \in {"", "id"}
    /\ awhere \in {0, 1}
    /\ InitAdapterLocals
    /\ IdleExtractorVars
    /\ IdleStoreVars

NextBatchSize ==
    \/ Adapter_GetState
    \/ Adapter_PrepareFails
    \/ Batch_Open
    \/ Batch_Iteration
    \/ Batch_ExtractBatchFails
    \/ Batch_WriteFails
    \/ Batch_Done

SpecBatchSize == InitBatchSize /\ [][NextBatchSize]_vars

NextWhere ==
    \/ \E adapter \in KeysetAdapters, width \in 1..MaxKeyCols :
         \E key \in KeyColumns(adapter, width), last \in {<<>>} \cup TableRows(width) :
           Keyset_BuildWhere(adapter, width, key, last)
    \/ \E width \in 1..MaxKeyCols : \E row \in TableRows(width) : Database_Evaluate(row)

SpecWhere == InitSaveState /\ [][NextWhere]_vars

NextAlias ==
    \/ \E w \in Workers : CtxMemoryManager_GetState(w)
    \/ \E w \in Workers : CtxMemoryManager_CreateState(w)
    \/ \E w \in Workers, status \in StatusValues : Caller_SetStatus(w, status)
    \/ \E w \in Workers : CtxMemoryManager_UpdateState(w)
    \/ \E w \in Workers : CtxMemoryManager_DeleteState(w)

SpecAlias == InitSaveState /\ [][NextAlias]_vars

(***************************************************************************)
(* C1: lease acquisition on an in-memory state manager is exclusive: of    *)
(* the LockState calls that returned true on a key, at most one lease is   *)
(* neither released nor expired at any time.                               *)
(***************************************************************************)
LiveHolders(k) == {w \in Workers : lgrant[w].key = k /\ lgrant[w].exp > now}

C1_LeaseExclusive == \A k \in Keys : Cardinality(LiveHolders(k)) <= 1

(***************************************************************************)
(* C2: of two workers extracting the same source and table concurrently,   *)
(* at most one is past lease acquisition at any time.                      *)
(***************************************************************************)
PastLease(w) == kpc[w] \in {"locked", "update", "ret"}

C2_AtMostOnePastLease == Cardinality({w \in Workers : PastLease(w)}) <= 1

(***************************************************************************)
(* C3: the job id is a function of the source identity and the table: any  *)
(* two invocations with the same configuration and table compute the same  *)
(* job id.                                                                 *)
(***************************************************************************)
C3_JobIdDeterministic ==
    \A w1, w2 \in Workers :
        kpc[w1] # "idle" /\ kpc[w2] # "idle" => kjob[w1] = kjob[w2]

(***************************************************************************)
(* C7: an extraction that ended normally leaves its checkpoint completed   *)
(* and no lease held for the job.                                          *)
(***************************************************************************)
\* what GetState(jobID) finds in the store
StoredState(j) == kheap[kstates[j]]

C7_CompletedAndReleased ==
    \A w \in Workers :
        kpc[w] = "done" /\ kres[w] = "ok" =>
            /\ kjob[w] \in DOMAIN kstates
            /\ StoredState(kjob[w]).Status = "completed"
            /\ kjob[w] \notin DOMAIN klocks

(***************************************************************************)
(* C9: every status in the state store is one of pending, running,         *)
(* completed, failed, and the status stored under a job id changes only    *)
(* along pending -> running, running -> completed, running -> failed and   *)
(* failed -> running.                                                      *)
(***************************************************************************)
AllowedTransitions ==
    {<<"pending", "running">>, <<"running", "completed">>,
     <<"running", "failed">>, <<"failed", "running">>}

StatusStep ==
    \A j \in DOMAIN kstates :
        j \in DOMAIN kstates' =>
            \/ StoredState(j)'.Status = StoredState(j).Status
            \/ <<StoredState(j).Status, StoredState(j)'.Status>> \in AllowedTransitions

C9_StatusTransitions ==
    /\ [](\A j \in DOMAIN kstates : StoredState(j).Status \in StatusValues)
    /\ [][StatusStep]_vars

\* a checkpoint that an error path moved from running to failed
C9_Witness ==
    \E j \in DOMAIN kstates :
        StoredState(j).Status = "failed" /\ StoredState(j).Error # ""

(***************************************************************************)
(* Claims about the file-writing adapters (SpecAdapter)                    *)
(***************************************************************************)
ReturnedSuccess == apc = "done" /\ ares = "ok"
ReturnedError == apc = "done" /\ ares \notin {"ok", "none"}
HasCheckpoint == AdapterTable \in DOMAIN lstates
Checkpoint == lstates[AdapterTable]
MatchingRows == Matching(asize, awhere)

\* C5: whenever a csv extraction of the DuckDB, Postgres or BigQuery adapter
\* has returned success and a checkpoint is stored, the number of data rows in the output file equals the
\* checkpoint's ProcessedRows and equals the number of rows of the source
\* table that match the where clause
C5_RowsMatchSource ==
    (ReturnedSuccess /\ aadapter \in {"duckdb", "postgres", "bigquery"}
       /\ aformat = "csv" /\ HasCheckpoint) =>
        /\ Len(afile.rows) = Checkpoint.ProcessedRows
        /\ Len(afile.rows) = Cardinality(MatchingRows)

\* C6: whenever a Snowflake csv extraction with ordered pages has returned
\* success and GetTotalRows had returned a value different from the actual
\* row count, the output file holds every matching row exactly once and the
\* checkpoint's ProcessedRows is the exact count
C6_EstimateDoesNotGate ==
    (ReturnedSuccess /\ aadapter = "snowflake" /\ aformat = "csv" /\ akeys # ""
       /\ atotal # asize) =>
        /\ afile.rows = Ascending(MatchingRows)
        /\ HasCheckpoint => Checkpoint.ProcessedRows = Cardinality(MatchingRows)

\* C8: a call of ExtractData that found a checkpoint with status completed
\* takes no step other than returning success, and leaves the output file
\* and the checkpoint as they are
C8_CompletedStep ==
    (apc = "prep" /\ acur = "completed") =>
        /\ afile' = afile
        /\ lstates' = lstates
        /\ apc' \in {"prep", "done"}
        /\ apc' = "done" => ares' = "ok"

C8_IdempotentOnCompleted == [][C8_CompletedStep]_vars

\* C10: whenever ExtractData has returned an error after its checkpoint was
\* created, the stored checkpoint has status failed and a non-empty error
\* message, and no lease on the table is left
C10_ErrorsMarkFailed ==
    (ReturnedError /\ HasCheckpoint) =>
        /\ Checkpoint.Status = StatusFailed
        /\ Checkpoint.Error # ""
        /\ AdapterTable \notin DOMAIN llocks

\* C11: whenever the call during which SIGINT or SIGTERM arrived has
\* returned, the stored checkpoint has status failed with reason canceled
\* and no lease on the table is left
C11_CancelMarksFailed ==
    (asignal /\ apc = "done" /\ HasCheckpoint) =>
        /\ Checkpoint.Status = StatusFailed
        /\ Checkpoint.Error = "canceled"
        /\ AdapterTable \notin DOMAIN llocks

StrictlyAscending(rows) == \A i \in 1..(Len(rows) - 1) : rows[i] < rows[i + 1]

\* C12: at every moment of a paged csv extraction, with or without
\* keyColumns, the rows written so far are in strictly ascending key order
C12_OutputAscending ==
    (aadapter \in BatchAdapters /\ aformat = "csv") => StrictlyAscending(afile.rows)

(***************************************************************************)
(* Claims about the Manager interface (SpecStore)                          *)
(***************************************************************************)
\* C13: a CreateState for a key that has a checkpoint returns an error and
\* leaves the stored checkpoints as they are
C13_CreateExistingStep ==
    (scall'.op = "CreateState" /\ scall'.key \in DOMAIN lstates) =>
        /\ scall'.err # ""
        /\ lstates' = lstates

C13_CreateExistingFails == [][C13_CreateExistingStep]_vars

\* C14: every DeleteState succeeds, and after it neither a checkpoint nor a
\* lock of the key is stored
C14_DeleteStep ==
    scall'.op = "DeleteState" =>
        /\ scall'.err = ""
        /\ scall'.key \notin DOMAIN lstates'
        /\ scall'.key \notin DOMAIN llocks'

C14_DeleteIdempotentComplete == [][C14_DeleteStep]_vars

\* C15: on MemoryManager a GetState, UpdateState, DeleteState or LockState
\* for a key without checkpoint returns an error (LockState also false,
\* GetState also nil) and changes neither the checkpoints nor the locks
C15_MissingKeyStep ==
    (lmgr = "MemoryManager"
       /\ scall'.op \in {"GetState", "UpdateState", "DeleteState", "LockState"}
       /\ scall'.key \notin DOMAIN lstates) =>
        /\ scall'.err # ""
        /\ ~scall'.ok
        /\ scall'.got = <<>>
        /\ lstates' = lstates
        /\ llocks' = llocks

C15_MissingKeyErrors == [][C15_MissingKeyStep]_vars

C15_Witness ==
    /\ lmgr = "MemoryManager"
    /\ scall.op = "LockState"
    /\ scall.key \notin DOMAIN lstates
    /\ scall.err # ""
    /\ ~scall.ok

\* C16: on MemoryManager an UpdateState of an existing checkpoint returns an
\* error and leaves the checkpoint unchanged while a lock that has not
\* expired is stored for the table, and otherwise (no lock, unlocked, or the
\* expiry time reached) succeeds and stores the count
C16_LockedUpdateStep ==
    (lmgr = "MemoryManager" /\ scall'.op = "UpdateState" /\ scall'.key \in DOMAIN lstates) =>
        IF LockLive(llocks, scall'.key, now)
        THEN scall'.err # "" /\ lstates' = lstates
        ELSE /\ scall'.err = ""
             /\ lstates'[scall'.key].ProcessedRows = scall'.n
             /\ lstates'[scall'.key].LastUpdated = now

C16_LockBlocksUpdate == [][C16_LockedUpdateStep]_vars

C16_Witness ==
    /\ lmgr = "MemoryManager"
    /\ scall.op = "UpdateState"
    /\ scall.key \in DOMAIN lstates
    /\ LockLive(llocks, scall.key, now)
    /\ scall.err # ""

\* C18: a GetState that directly follows a successful call for the same
\* table returns a checkpoint of that table after CreateState, a checkpoint
\* with processed_rows = n after UpdateState(table, n), and none after
\* DeleteState
C18_RoundTripStep ==
    (scall'.op = "GetState" /\ scall.key = scall'.key /\ scall.err = "") =>
        /\ scall.op = "CreateState" =>
             scall'.got # <<>> /\ scall'.got[1].Table = scall'.key
        /\ scall.op = "UpdateState" =>
             scall'.got # <<>> /\ scall'.got[1].ProcessedRows = scall.n
        /\ scall.op = "DeleteState" => scall'.got = <<>>

C18_RoundTrip == [][C18_RoundTripStep]_vars

(***************************************************************************)
(* Claims about concurrent updates (SpecUpdaters)                          *)
(***************************************************************************)
UpdatersDone == \A w \in Workers : snext[w] > MaxUpdates

\* C17: every UpdateState of the concurrent workers succeeds and stores its
\* value, and when all workers have finished the stored processed_rows is
\* at least MaxUpdates
C17_ConcurrentUpdates ==
    /\ scall.op = "UpdateState" =>
         scall.err = "" /\ lstates[StoreKey].ProcessedRows = scall.n
    /\ UpdatersDone => lstates[StoreKey].ProcessedRows >= MaxUpdates

\* both workers have finished, and the update applied last was worker 1's
C17_Witness ==
    /\ UpdatersDone
    /\ scall.op = "UpdateState"
    /\ scall.w = 1
    /\ lstates[StoreKey].ProcessedRows = MaxUpdates

(***************************************************************************)
(* Claims about pkg/extractor (SpecExtractor)                              *)
(***************************************************************************)
\* this process loaded the checkpoint, with rows already extracted, of a
\* process whose Extract stopped part-way, and its own Extract, given the
\* exact row count, returned nil
ResumedAndFinished ==
    /\ epc = "done"
    /\ eres = "ok"
    /\ eloaded
    /\ echeckpoint[1] > 0
    /\ echeckpoint[1] < esize
    /\ eprev \in {"canceled", "crashed"}
    /\ etotal = esize

\* C4: whenever a run that loaded the checkpoint of a run stopped part-way
\* has finished, the output file contains every row of the table exactly once
C4_ResumeExactlyOnce ==
    (ResumedAndFinished /\ eformat = "csv") =>
        /\ Len(DataRows(efile)) = esize
        /\ \A r \in 1..esize : \E i \in 1..Len(efile) : efile[i] = r

\* C19: whenever SaveCheckpoint has succeeded, the checkpoint file holds the
\* extractor's lastID, and a LoadCheckpoint that follows it leaves lastID at
\* that value
C19_LoadAfterSaveStep == (ecall = "save-ok" /\ ecall' = "load") => elastID' = elastID

C19_CheckpointRoundTrip ==
    /\ [](ecall = "save-ok" => eckfile = CheckpointOf(ExtractorTable, elastID))
    /\ [][C19_LoadAfterSaveStep]_vars

\* a checkpoint saved by an extractor that loaded none counts no batch that
\* was not completely written: it is at most the loop's offset, so 0 while
\* the first batch is incomplete
C20_SavedCountsWholeBatches ==
    (ecall = "save-ok" /\ ~eloaded) => (eckfile # <<>> /\ eckfile[1] <= eoffset)

\* Extract returns with its context cancelled and its first batch not yet
\* completely written
C20_ReturnsCancelledEarly ==
    /\ epc \in {"loop", "rows"}
    /\ epc' = "done"
    /\ ecancel
    /\ eoffset = 0

\* C20 as claimed: every Extract whose context is cancelled before the first
\* batch has been completely written returns the context's error, and a
\* checkpoint saved afterwards counts whole batches only
C20_CancelledStep == C20_ReturnsCancelledEarly => eres' = "canceled"

C20_CancelledPendingStep ==
    (C20_ReturnsCancelledEarly /\ eoffset < etotal) =>
        eres' = "canceled" /\ elastID' = elastID

C21_StateAfterExtract ==
    (lmgr = "MemoryStateManager" /\ aadapter = "duckdb" /\ acur = "nil" /\ ReturnedSuccess)
        => (HasCheckpoint /\ Checkpoint.Status = "running")

\* C22: a GetState of the file backend made while no write of the state
\* file is in progress never fails to parse the file, whatever point of
\* saveState a process crashed at: it returns a complete checkpoint (or none
\* when none was ever written)
C22_GetStateStep ==
    \A p \in Workers :
        (/\ fret'[p] # fret[p]
         /\ fret'[p].op = "GetState"
         /\ \A q \in Workers : fpc[q] = "idle") => fret'[p].err = ""

FileLease(p) == fret[p].op = "LockState" /\ fret[p].ok /\ fret[p].got[1] > now

C23_FileLeaseExclusive ==
    Cardinality({p \in Workers : FileLease(p)}) <= 1

\* C24: an UpdateState of the cluster backend whose write is based on a
\* stale read (the ConfigMap is no longer what the worker's Get returned)
\* is rejected: it leaves the ConfigMap as the other worker wrote it
StaleRead(w) == qread[w] # Kube_GetState(qcm, StoreKey)

C24_StaleWriteStep ==
    \A w \in Workers :
        (qpc[w] = "update" /\ qpc'[w] # "update" /\ StaleRead(w)) => qcm' = qcm

C24_OptimisticConcurrency == [][C24_StaleWriteStep]_vars

\* C25: in every backend a lease whose duration has elapsed and that was
\* not released does not stop another LockState of the job: the call returns
\* true (on a memory manager the job's state exists, as LockState requires)
C25_LeaseTimeBounded ==
    \A d \in Durations :
        /\ (StoreKey \in DOMAIN llocks /\ llocks[StoreKey] <= now /\ StoreKey \in DOMAIN lstates)
              => Manager_LockState(lmgr, lstates, llocks, StoreKey, d, now).ok
        /\ (LockFile(StoreKey) \in DOMAIN fdir /\ fdir[LockFile(StoreKey)][1] <= now)
              => File_LockState(fdir, StoreKey, d, now).ok
        /\ (LockName(StoreKey) \in DOMAIN qcm /\ qcm[LockName(StoreKey)].expires <= now)
              => Kube_LockState(qcm, StoreKey, d, now).ok

\* C26: every call returns the same outcome (nil, an error or no return at
\* all; LockState's bool; GetState's checkpoint) on the three backends
C26_SameContract ==
    bcall.op # "none" => (bcall.mem = bcall.file /\ bcall.file = bcall.kube)

\* C27: the ProcessedRows stored for the table is never negative and no
\* step of an extraction run, the first or a later one, lowers it
C27_NeverLoweredStep ==
    (AdapterTable \in DOMAIN lstates /\ AdapterTable \in DOMAIN lstates')
        => lstates'[AdapterTable].ProcessedRows >= lstates[AdapterTable].ProcessedRows

C27_ProcessedRowsMonotonic ==
    /\ [](HasCheckpoint => Checkpoint.ProcessedRows >= 0)
    /\ [][C27_NeverLoweredStep]_vars

\* C28: a worker of the keyset ExtractData writes the checkpoint of its job
\* (the page's UpdateState, or the UpdateState of an error path) only while
\* the lease of the job is live
C28_WriteStep ==
    \A w \in Workers :
        (kpc[w] \in {"locked", "update"} /\ kpc'[w] = "ret")
            => LockLive(klocks, kjob[w], now)

C28_WritesUnderLiveLease == [][C28_WriteStep]_vars

\* C29: when the Extract of an extractor that loaded no checkpoint has
\* returned, with success, an error or a cancellation, its lastID is the
\* number of data rows in the output file
C29_CheckpointMatchesOutput ==
    (epc = "done" /\ ~eloaded /\ eruns = 1 /\ eformat = "csv")
        => elastID = Len(DataRows(efile))

\* C30: the UpdateState a worker makes right after its LockState of the key
\* returned true, the lease neither expired nor released, succeeds and
\* stores the new ProcessedRows
C30_HolderUpdateStep ==
    (/\ scall.op = "LockState" /\ scall.ok
     /\ scall'.op = "UpdateState" /\ scall'.w = scall.w /\ scall'.key = scall.key)
        => (/\ scall'.err = ""
            /\ StoreKey \in DOMAIN lstates'
            /\ lstates'[StoreKey].ProcessedRows = scall'.n)

C30_HolderCanUpdate == [][C30_HolderUpdateStep]_vars

(***************************************************************************)
(* Edge cases and error propagation of the file-writing adapters           *)
(* (SpecAdapter)                                                           *)
(***************************************************************************)
\* C32: the first ExtractData of an empty table to a csv file, once the
\* output could be prepared, returns success, leaves a file holding the
\* header line only, and leaves a checkpoint with ProcessedRows 0 and the
\* status completed, in every adapter
C32_EmptyTable ==
    (/\ apc = "done" /\ aruns = 1 /\ asize = 0 /\ aformat = "csv"
     /\ ares \in {"ok", "error: failed to read first row"})
        => /\ ares = "ok"
           /\ afile = [exists |-> TRUE, header |-> 1, rows |-> <<>>]
           /\ HasCheckpoint
           /\ Checkpoint.ProcessedRows = 0
           /\ Checkpoint.Status = "completed"

\* C34: an ExtractData of a row-streaming adapter that returned success has
\* read every row of its query's result: a read that failed before the end
\* of the data never ends in success with a shortened result
C34_ReadErrorsReachCaller ==
    (ReturnedSuccess /\ aadapter \in StreamAdapters) => arows = <<>>

(***************************************************************************)
(* The batch loop of pkg/extractor (SpecExtractor)                         *)
(***************************************************************************)
\* the pages the first Extract of a new Extractor has fetched: its offset
\* starts at 0 and advances by batchSize after every ExtractBatch
ExtractFetches == eoffset \div ebatch

\* C33: a first Extract that returned success, with an exact row count, has
\* stopped on the first page shorter than the batch size: over a table of
\* k * batchSize rows (k >= 1) it fetched k full pages and one empty page,
\* and over a single row with a larger batch size it fetched one page
C33_StopsOnShortPage ==
    (/\ epc = "done" /\ eres = "ok" /\ eruns = 1 /\ ~eloaded
     /\ etotal = esize)
        => /\ (esize > 0 /\ esize % ebatch = 0)
                => ExtractFetches = (esize \div ebatch) + 1
           /\ (esize = 1 /\ ebatch > 1) => ExtractFetches = 1

(***************************************************************************)
(* ListStates of the backends (SpecBackends)                               *)
(***************************************************************************)
\* C35: the list a ListStates call returns holds exactly the checkpoints
\* that were created and not deleted since, in the memory backend and in
\* the cluster backend
C35_ListsCreatedStates ==
    bcall.op = "ListStates" =>
        /\ bcall.mem.res = "ok"
        /\ bcall.mem.got = (IF StoreKey \in DOMAIN lstates THEN <<lstates[StoreKey]>> ELSE <<>>)
        /\ bcall.kube.res = "ok"
        /\ bcall.kube.got = (IF StateName(StoreKey) \in DOMAIN qcm
                               THEN <<qcm[StateName(StoreKey)]>> ELSE <<>>)

(***************************************************************************)
(* The stored checkpoint and the caller's copy (SpecAlias)                 *)
(***************************************************************************)
\* what GetState of the job returns, as a value
GetStateValue == IF AliasJob \in DOMAIN kstates THEN <<StoredState(AliasJob)>> ELSE <<>>

\* C39: the assignment a caller makes to the Status and Error of the State
\* it has just got from GetState, before any UpdateState, leaves what
\* GetState returns unchanged
C39_CallerStep ==
    \A w \in Workers :
        (kres[w] = "GetState" /\ kres'[w] = "assigned")
            => (GetStateValue' = GetStateValue)

C39_StoredChangesOnlyByCalls == [][C39_CallerStep]_vars

(***************************************************************************)
(* LoadCheckpoint (SpecExtractor)                                          *)
(***************************************************************************)
LoadReturned == ecall' \in {"load", "load-error", "load-nofile"}
LoadChangedNothing == elastID' = elastID /\ echeckpoint' = echeckpoint

\* C36: a LoadCheckpoint without a checkpoint file returns nil, one over a
\* file that records another table returns an error, and every
\* LoadCheckpoint that did not succeed leaves lastID and the in-memory
\* checkpoint as they were
C36_LoadStep ==
    LoadReturned =>
        /\ eckfile = <<>> => (ecall' = "load-nofile" /\ LoadChangedNothing)
        /\ (eckfile # <<>> /\ eckfile[2] # ExtractorTable)
              => (ecall' = "load-error" /\ LoadChangedNothing)
        /\ ecall' # "load" => LoadChangedNothing

C36_LoadChangesOnlyOnSuccess == [][C36_LoadStep]_vars

\* an Extractor that had loaded its own checkpoint, with rows extracted, and
\* whose next LoadCheckpoint found the other table's checkpoint and failed
C36_Witness ==
    /\ ecall = "load-error"
    /\ eckfile = CheckpointOf(OtherTable, 0)
    /\ eloaded
    /\ elastID > 0
    /\ echeckpoint = CheckpointOf(ExtractorTable, elastID)

(***************************************************************************)
(* The batch size (SpecBatchSize)                                          *)
(***************************************************************************)
\* an iteration of the batch loop after which the loop goes on
C38_IterationStep == (apc = "loop" /\ apc' = "loop") => aoffset' > aoffset

\* C38: the batch loop is never entered with a batch size of zero or below
\* (such a size is rejected before the extraction starts), and every
\* iteration after which the loop goes on has advanced the offset
C38_BatchLoopTerminates ==
    /\ [](apc = "loop" => abatch >= 1)
    /\ [][C38_IterationStep]_vars

(***************************************************************************)
(* The mutex of FileStateManager (SpecFileMutex)                           *)
(***************************************************************************)
\* C37: no call of a FileStateManager method blocks for ever on m.mu: a
\* goroutine that waits for the mutex, in Lock or in RLock, does not hold it
\* itself, so that the goroutines it waits for can go on and release it
C37_NoCallBlocksForever ==
    \A p \in Workers :
        (WaitsForLock(p) \/ WaitsForRLock(p)) => (~HoldsLock(p) /\ ~HoldsRLock(p))

(***************************************************************************)
(* The keyset WHERE clause (SpecWhere)                                     *)
(***************************************************************************)
\* the key of the last row of the page before, and of the row tested
LastKey == [j \in 1..Len(wq.key) |-> wq.last[wq.key[j]]]
RowKey == [j \in 1..Len(wq.key) |-> wq.row[wq.key[j]]]

\* lexicographic order on keys
LexGreater(a, b) == \E i \in 1..Len(a) : a[i] > b[i] /\ \A j \in 1..(i - 1) : a[j] = b[j]

\* C31: once the database has tested a row against the query built for a
\* key of n columns: without a stored last key the query has no WHERE
\* clause; with one, the clause is the OR-of-tuples expansion, the arguments
\* passed are as many as the parameters declared, every placeholder takes
\* the last-key value of the column it is compared with, and the row
\* satisfies the clause exactly when its key is lexicographically greater
\* than the last key
C31_WherePredicate ==
    wq.res # "none" =>
        IF wq.last = <<>> THEN wq.where = <<>>
        ELSE /\ Len(wq.where) = Len(wq.key)
             /\ Parameters(wq.where) = 1..Len(wq.args)
             /\ \A i \in 1..Len(wq.where) : \A j \in 1..i :
                  LET a == ArgIndex(wq.where[i][j], i, j)
                  IN a \in 1..Len(wq.args) /\ wq.args[a] = LastKey[j]
             /\ wq.res = (IF LexGreater(RowKey, LastKey) THEN "true" ELSE "false")

====
